---- MODULE Spec2Model ----
(***************************************************************************)
(* Register-based bytecode VM (src/dm/src/vm/vm.rs), the AST-to-bytecode   *)
(* Compiler that feeds it (src/dm/src/vm/compiler.rs) and the places of    *)
(* the hook dispatcher that drive both (src/dm/src/hooks.rs).              *)
(*                                                                         *)
(* Representation.  A byte is a number in 0..255.  A u32 is kept as its    *)
(* two 16-bit halves [hi, lo] because the payloads range over the whole    *)
(* 32-bit width (0x80000000 is -0.0).  An f32 is its bit pattern.  A       *)
(* cursor is a 0-based byte offset; code[c + 1] is the byte at offset c.   *)
(***************************************************************************)
EXTENDS Integers, Sequences, FiniteSets, TLC

VARIABLES
    bytecodes,    \* VM.bytecodes: procedure id -> buffer
    stack,        \* the live Processes, innermost run_program last
    pc,           \* "idle" | "running" | "host" | "done" | "panicked"
    result,       \* the Register the outermost run_program returned
    nativeCalls,  \* calls handed to the native-procedure fallback, in order
    fault,        \* why the thread panicked ("none" while it has not)
    finished,     \* the Process of the run_program that returned last
    comp,         \* the Compiler (compiler.rs), with its allocation history
    compiled,     \* what Compiler::compile returned, once it has
    host,         \* PROC_HOOKS, the borrow of HOOK_VM and the dispatcher's calls
    added         \* history: the buffer last given to add_program for each id

vars == <<bytecodes, stack, pc, result, nativeCalls, fault, finished, comp, compiled,
          host, added>>

(***************************************************************************)
(* Bounds of the model.                                                    *)
(***************************************************************************)
MaxSteps == 10      \* execute_one steps followed per Process
MaxDepth == 2       \* nested run_program invocations followed
MaxArgs == 2        \* arguments of a top-level invocation
MaxStmts == 2       \* statements of a compiled procedure body
DeepNest == 16      \* operators nested in the deepest expression compiled
MaxFrames == 3      \* calls on the thread's stack that entered host code or the VM
MaxCalls == 2       \* calls the dispatcher intercepts
MaxRegs == 2        \* hook registrations

(***************************************************************************)
(* Opcode (vm.rs:25-77): the discriminants of the #[repr(u8)] enum.        *)
(***************************************************************************)
HALT == 0
LOAD_IMMEDIATE == 1
LOAD_ARGUMENT == 2
LOAD_LOCAL == 3
STORE_LOCAL == 4
GET_FIELD == 5
SET_FIELD == 6
ADD == 7
SUB == 8
MUL == 9
DIV == 10
LESS_THAN == 11
LESS_OR_EQUAL == 12
EQUAL == 13
GREATER_OR_EQUAL == 14
GREATER_THAN == 15
JUMP == 16
JUMP_TRUE == 17
JUMP_FALSE == 18
PUSH == 19
CALL == 20
RETURN == 21
INVALID == 22

NUM_REGISTERS == 16
NumberTag == 42      \* 0x2A

\* impl From<u8> for Opcode
OpcodeFrom(b) == IF b < INVALID THEN b ELSE INVALID

(***************************************************************************)
(* u32 and f32.                                                            *)
(***************************************************************************)
\* ReadBytesExt::read_u32::<LittleEndian> on four bytes
U32FromLe(b0, b1, b2, b3) == [hi |-> b3 * 256 + b2, lo |-> b1 * 256 + b0]

\* u32::to_le_bytes
U32ToLe(v) == <<v.lo % 256, v.lo \div 256, v.hi % 256, v.hi \div 256>>

\* usize::to_be_bytes in place of to_le_bytes: most significant byte first.
UsizeToLe4_BigEndian(n) ==
    <<(n \div 16777216) % 256, (n \div 65536) % 256, (n \div 256) % 256, n % 256>>

\* usize::to_le_bytes, the four low bytes (buffers are far below 2^31 bytes)
UsizeToLe4(n) ==
    <<n % 256, (n \div 256) % 256, (n \div 65536) % 256, (n \div 16777216) % 256>>

\* `dest as u64` handed to Cursor::set_position.  Every offset at or above
\* 65536 is past the end of every buffer of the model and behaves alike.
U32ToPos(v) == IF v.hi > 0 THEN 65536 ELSE v.lo

ZeroU32 == [hi |-> 0, lo |-> 0]

\* A payload the f32 arithmetic below does not cover.
Unmodelled == [hi |-> -1, lo |-> -1]

RECURSIVE Log2(_)
Log2(n) == IF n < 2 THEN 0 ELSE 1 + Log2(n \div 2)

\* f32::from_bits, to sign, class and magnitude.  Magnitudes are decoded
\* when they are integers below 2^24; "other" is every other finite value.
F32FromBits(v) ==
    LET s == v.hi \div 32768
        e == (v.hi \div 128) % 256
        m == (v.hi % 128) * 65536 + v.lo
    IN  IF v = Unmodelled THEN [k |-> "other", s |-> 0, n |-> 0]
        ELSE IF e = 255
        THEN [k |-> IF m = 0 THEN "inf" ELSE "nan", s |-> s, n |-> 0]
        ELSE IF e = 0
        THEN [k |-> IF m = 0 THEN "fin" ELSE "other", s |-> s, n |-> 0]
        ELSE IF e >= 127 /\ e <= 150 /\ (8388608 + m) % (2 ^ (150 - e)) = 0
        THEN [k |-> "fin", s |-> s, n |-> (8388608 + m) \div (2 ^ (150 - e))]
        ELSE [k |-> "other", s |-> s, n |-> 0]

\* f32::to_bits of sign s, exponent e and 24-bit significand sig
F32Pack(s, e, sig) ==
    LET m == sig - 8388608
    IN  [hi |-> s * 32768 + (127 + e) * 128 + m \div 65536, lo |-> m % 65536]

\* f32::to_bits of the integer value (-1)^s * n
F32OfInt(s, n) ==
    IF n = 0 THEN [hi |-> s * 32768, lo |-> 0]
    ELSE IF n >= 16777216 THEN Unmodelled
    ELSE LET e == Log2(n) IN F32Pack(s, e, n * 2 ^ (23 - e))

F32Inf(s) == [hi |-> s * 32768 + 32640, lo |-> 0]

RECURSIVE ShiftUp(_, _, _)
\* the least k >= 1 with a * 2^k >= b
ShiftUp(a, b, k) == IF a * 2 ^ k >= b THEN k ELSE ShiftUp(a, b, k + 1)

\* a / b rounded to nearest, ties to even, for 0 < a, b < 128
F32Quotient(s, a, b) ==
    IF a >= 128 \/ b >= 128 THEN Unmodelled
    ELSE LET e == IF a >= b THEN Log2(a \div b) ELSE 0 - ShiftUp(a, b, 1)
             num == a * 2 ^ (23 - e)
             q == num \div b
             r == num % b
             up == IF 2 * r > b \/ (2 * r = b /\ q % 2 = 1) THEN q + 1 ELSE q
         IN  IF up = 16777216 THEN F32Pack(s, e + 1, 8388608)
             ELSE F32Pack(s, e, up)

Xor(a, b) == IF a = b THEN 0 ELSE 1

\* f32 + f32.  nan is the bit pattern the platform gives a NaN result.
F32Add(x, y, nan) ==
    IF x.k = "other" \/ y.k = "other" THEN Unmodelled
    ELSE IF x.k = "nan" \/ y.k = "nan" THEN nan
    ELSE IF x.k = "inf" /\ y.k = "inf"
    THEN (IF x.s = y.s THEN F32Inf(x.s) ELSE nan)
    ELSE IF x.k = "inf" THEN F32Inf(x.s)
    ELSE IF y.k = "inf" THEN F32Inf(y.s)
    ELSE LET a == IF x.s = 1 THEN 0 - x.n ELSE x.n
             b == IF y.s = 1 THEN 0 - y.n ELSE y.n
             sum == a + b
         IN  IF sum = 0
             THEN F32OfInt(IF x.n = 0 /\ x.s = 1 /\ y.s = 1 THEN 1 ELSE 0, 0)
             ELSE IF sum < 0 THEN F32OfInt(1, 0 - sum) ELSE F32OfInt(0, sum)

F32Neg(y) == [y EXCEPT !.s = 1 - y.s]

F32Mul(x, y, nan) ==
    IF x.k = "other" \/ y.k = "other" THEN Unmodelled
    ELSE IF x.k = "nan" \/ y.k = "nan" THEN nan
    ELSE IF x.k = "inf" \/ y.k = "inf"
    THEN (IF (x.k = "fin" /\ x.n = 0) \/ (y.k = "fin" /\ y.n = 0)
          THEN nan ELSE F32Inf(Xor(x.s, y.s)))
    ELSE IF x.n >= 4096 \/ y.n >= 4096 THEN Unmodelled
    ELSE F32OfInt(Xor(x.s, y.s), x.n * y.n)

F32Div(x, y, nan) ==
    IF x.k = "other" \/ y.k = "other" THEN Unmodelled
    ELSE IF x.k = "nan" \/ y.k = "nan" THEN nan
    ELSE IF x.k = "inf" THEN (IF y.k = "inf" THEN nan ELSE F32Inf(Xor(x.s, y.s)))
    ELSE IF y.k = "inf" THEN F32OfInt(Xor(x.s, y.s), 0)
    ELSE IF y.n = 0 THEN (IF x.n = 0 THEN nan ELSE F32Inf(Xor(x.s, y.s)))
    ELSE IF x.n % y.n = 0 THEN F32OfInt(Xor(x.s, y.s), x.n \div y.n)
    ELSE F32Quotient(Xor(x.s, y.s), x.n, y.n)

\* The position of a non-NaN f32 on the number line (+0 = -0).
F32Ord(x) ==
    IF x.k = "inf" THEN (IF x.s = 1 THEN 0 - 33554432 ELSE 33554432)
    ELSE IF x.s = 1 THEN 0 - x.n ELSE x.n

F32One == [hi |-> 16256, lo |-> 0]    \* f32::to_bits(1.0) = 0x3F800000
NanBits == {[hi |-> 32704, lo |-> 0], [hi |-> 65472, lo |-> 0]}

(***************************************************************************)
(* Register and Process (vm.rs:110-157, 207-246).                          *)
(***************************************************************************)
Register_new(tag, value) == [tag |-> tag, value |-> value]

\* impl Default for Register
RegisterDefault == [tag |-> 0, value |-> ZeroU32]

RegIdx == 0 .. (NUM_REGISTERS - 1)

\* Process::new with the return register preset to 1 instead of 0.
Process_new_ReturnsOne(pid, bytecode, args) ==
    [ registers |-> [i \in RegIdx |-> RegisterDefault],
      cursor |-> 0,
      code |-> bytecode,
      args |-> args,
      locals |-> [i \in RegIdx |-> RegisterDefault],
      pid |-> pid,
      return_register_id |-> 1,
      call_arg_stack |-> <<>>,
      state |-> "running",
      result_register |-> 0,
      trace |-> <<>>,
      pushed |-> <<>>,
      passed |-> <<>> ]

\* Process::new.  state and result_register are the Process's place in
\* its CALL handler; trace, pushed and passed are history, read by no
\* operation: trace has one entry per execute_one step, pushed the
\* registers PUSHed since the last CALL, passed those the last CALL took.
Process_new(pid, bytecode, args) ==
    [ registers |-> [i \in RegIdx |-> RegisterDefault],
      cursor |-> 0,
      code |-> bytecode,
      args |-> args,
      locals |-> [i \in RegIdx |-> RegisterDefault],
      pid |-> pid,
      return_register_id |-> 0,
      call_arg_stack |-> <<>>,
      state |-> "running",
      result_register |-> 0,
      trace |-> <<>>,
      pushed |-> <<>>,
      passed |-> <<>> ]

\* Whether n more bytes can be read at the cursor (read_u8 / read_u16 /
\* read_u32 return an error otherwise, and the unwrap panics).
Avail(p, n) == p.cursor + n <= Len(p.code)

\* The byte k places after the cursor.
ByteAt(p, k) == p.code[p.cursor + k + 1]

\* read_u32::<BigEndian> in place of LittleEndian.
ReadValueAt_BigEndian(p, k) ==
    U32FromLe(ByteAt(p, k + 3), ByteAt(p, k + 2), ByteAt(p, k + 1), ByteAt(p, k))

\* Process::read_value at k places after the cursor
ReadValueAt(p, k) ==
    U32FromLe(ByteAt(p, k), ByteAt(p, k + 1), ByteAt(p, k + 2), ByteAt(p, k + 3))

\* Process::read_short at k places after the cursor
ReadShortAt(p, k) == ByteAt(p, k) + 256 * ByteAt(p, k + 1)

\* get_return_value that ignores RETURN and always reads register 0.
get_return_value_Zero(p) == p.registers[0]

\* Process::get_return_value; the index panics when out of range.
get_return_value(p) == p.registers[p.return_register_id]

\* Process::compare on two decoded f32
compare(left, right, op) ==
    IF left.k = "nan" \/ right.k = "nan" THEN FALSE
    ELSE CASE op = LESS_THAN -> F32Ord(left) < F32Ord(right)
           [] op = LESS_OR_EQUAL -> F32Ord(left) <= F32Ord(right)
           [] op = EQUAL -> F32Ord(left) = F32Ord(right)
           [] op = GREATER_OR_EQUAL -> F32Ord(left) >= F32Ord(right)
           [] OTHER -> F32Ord(left) > F32Ord(right)

\* The outcomes of one execute_one.
StepOk(q) == [status |-> "ok", p |-> q, why |-> "none", id |-> ZeroU32, args |-> <<>>]
\* `return Err(())` forgotten: an opcode without a case falls through to Ok(()).
StepErr_Continues(q) == [status |-> "ok", p |-> q, why |-> "none", id |-> ZeroU32, args |-> <<>>]
StepErr(q) == [status |-> "err", p |-> q, why |-> "none", id |-> ZeroU32, args |-> <<>>]
StepPanic(q, why) == [status |-> "panic", p |-> q, why |-> why, id |-> ZeroU32, args |-> <<>>]
StepCall(q, id, args) == [status |-> "call", p |-> q, why |-> "none", id |-> id, args |-> args]

\* do_math_op without `dest.tag = 0x2A`: dest keeps the tag it had.
do_math_op_KeepsTag(p, op, nan) ==
    IF ~Avail(p, 4) THEN StepPanic(p, "eof")
    ELSE LET lefti == ByteAt(p, 1)
             righti == ByteAt(p, 2)
             desti == ByteAt(p, 3)
         IN  IF lefti >= NUM_REGISTERS \/ righti >= NUM_REGISTERS \/ desti >= NUM_REGISTERS
             THEN StepPanic(p, "register")
             ELSE LET left == F32FromBits(p.registers[lefti].value)
                      right == F32FromBits(p.registers[righti].value)
                      res == CASE op = ADD -> F32Add(left, right, nan)
                               [] op = SUB -> F32Add(left, F32Neg(right), nan)
                               [] op = MUL -> F32Mul(left, right, nan)
                               [] OTHER -> F32Div(left, right, nan)
                  IN  StepOk([p EXCEPT !.cursor = p.cursor + 4,
                                       !.registers[desti].value = res])

\* Process::do_math_op, the opcode byte already consumed
do_math_op(p, op, nan) ==
    IF ~Avail(p, 4) THEN StepPanic(p, "eof")
    ELSE LET lefti == ByteAt(p, 1)
             righti == ByteAt(p, 2)
             desti == ByteAt(p, 3)
         IN  IF lefti >= NUM_REGISTERS \/ righti >= NUM_REGISTERS \/ desti >= NUM_REGISTERS
             THEN StepPanic(p, "register")
             ELSE LET left == F32FromBits(p.registers[lefti].value)
                      right == F32FromBits(p.registers[righti].value)
                      res == CASE op = ADD -> F32Add(left, right, nan)
                               [] op = SUB -> F32Add(left, F32Neg(right), nan)
                               [] op = MUL -> F32Mul(left, right, nan)
                               [] OTHER -> F32Div(left, right, nan)
                  IN  StepOk([p EXCEPT !.cursor = p.cursor + 4,
                                       !.registers[desti] = Register_new(NumberTag, res)])

\* The comparison arm of execute_one.  cmp is what the f32 comparison
\* gives on operands whose magnitude F32FromBits does not decode.
do_compare_op(p, op, cmp) ==
    IF ~Avail(p, 4) THEN StepPanic(p, "eof")
    ELSE LET lefti == ByteAt(p, 1)
             righti == ByteAt(p, 2)
             resulti == ByteAt(p, 3)
         IN  IF lefti >= NUM_REGISTERS \/ righti >= NUM_REGISTERS \/ resulti >= NUM_REGISTERS
             THEN StepPanic(p, "register")
             ELSE LET left == F32FromBits(p.registers[lefti].value)
                      right == F32FromBits(p.registers[righti].value)
                      holds == IF left.k = "nan" \/ right.k = "nan" THEN FALSE
                               ELSE IF left.k = "other" \/ right.k = "other" THEN cmp
                               ELSE compare(left, right, op)
                      res == IF holds THEN F32One ELSE ZeroU32
                  IN  StepOk([p EXCEPT !.cursor = p.cursor + 4,
                                       !.registers[resulti] = Register_new(NumberTag, res)])

\* Process::execute_one.  env.field is what the host's get_variable
\* writes for GET_FIELD, env.nan the bit pattern of a NaN result.  CALL
\* hands over to VM::run_program at "call"; its tail is call_store.
execute_one(p, env) ==
    IF ~Avail(p, 1) THEN StepPanic(p, "eof")
    ELSE LET op == OpcodeFrom(ByteAt(p, 0)) IN
    CASE op = LOAD_IMMEDIATE ->
           IF ~Avail(p, 7) THEN StepPanic(p, "eof")
           ELSE LET reg_idx == ByteAt(p, 1)
                    typ == ByteAt(p, 2)
                    val == ReadValueAt(p, 3)
                IN  IF reg_idx >= NUM_REGISTERS THEN StepPanic(p, "register")
                    ELSE StepOk([p EXCEPT !.cursor = p.cursor + 7,
                                          !.registers[reg_idx] = Register_new(typ, val)])
      [] op = LOAD_ARGUMENT ->
           IF ~Avail(p, 3) THEN StepPanic(p, "eof")
           ELSE LET arg_index == ByteAt(p, 1)
                    dest_index == ByteAt(p, 2)
                IN  IF arg_index >= Len(p.args) THEN StepPanic(p, "argument")
                    ELSE IF dest_index >= NUM_REGISTERS THEN StepPanic(p, "register")
                    ELSE StepOk([p EXCEPT !.cursor = p.cursor + 3,
                                          !.registers[dest_index] = p.args[arg_index + 1]])
      [] op = LOAD_LOCAL ->
           IF ~Avail(p, 3) THEN StepPanic(p, "eof")
           ELSE LET local_index == ByteAt(p, 1)
                    dest_index == ByteAt(p, 2)
                IN  IF local_index >= NUM_REGISTERS THEN StepPanic(p, "local")
                    ELSE IF dest_index >= NUM_REGISTERS THEN StepPanic(p, "register")
                    ELSE StepOk([p EXCEPT !.cursor = p.cursor + 3,
                                          !.registers[dest_index] = p.locals[local_index]])
      [] op = STORE_LOCAL ->
           IF ~Avail(p, 3) THEN StepPanic(p, "eof")
           ELSE LET dest_index == ByteAt(p, 1)
                    local_index == ByteAt(p, 2)
                IN  IF local_index >= NUM_REGISTERS THEN StepPanic(p, "local")
                    ELSE IF dest_index >= NUM_REGISTERS THEN StepPanic(p, "register")
                    ELSE StepOk([p EXCEPT !.cursor = p.cursor + 3,
                                          !.locals[local_index] = p.registers[dest_index]])
      [] op = GET_FIELD ->
           IF ~Avail(p, 5) THEN StepPanic(p, "eof")
           ELSE LET source_index == ByteAt(p, 1)
                    field_name == ReadShortAt(p, 2)
                    destination_index == ByteAt(p, 4)
                IN  IF source_index >= NUM_REGISTERS \/ destination_index >= NUM_REGISTERS
                    THEN StepPanic(p, "register")
                    ELSE StepOk([p EXCEPT !.cursor = p.cursor + 5,
                                          !.registers[destination_index] = env.field])
      [] op \in {ADD, SUB, MUL, DIV} -> do_math_op(p, op, env.nan)
      [] op \in {LESS_THAN, LESS_OR_EQUAL, EQUAL, GREATER_OR_EQUAL, GREATER_THAN} ->
           do_compare_op(p, op, env.cmp)
      [] op = JUMP ->
           IF ~Avail(p, 5) THEN StepPanic(p, "eof")
           ELSE StepOk([p EXCEPT !.cursor = U32ToPos(ReadValueAt(p, 1))])
      [] op = JUMP_TRUE ->
           IF ~Avail(p, 6) THEN StepPanic(p, "eof")
           ELSE LET reg == ByteAt(p, 1)
                    dest == ReadValueAt(p, 2)
                IN  IF reg >= NUM_REGISTERS THEN StepPanic(p, "register")
                    ELSE IF p.registers[reg].value # ZeroU32
                    THEN StepOk([p EXCEPT !.cursor = U32ToPos(dest)])
                    ELSE StepOk([p EXCEPT !.cursor = p.cursor + 6])
      [] op = JUMP_FALSE ->
           IF ~Avail(p, 6) THEN StepPanic(p, "eof")
           ELSE LET reg == ByteAt(p, 1)
                    dest == ReadValueAt(p, 2)
                IN  IF reg >= NUM_REGISTERS THEN StepPanic(p, "register")
                    ELSE IF p.registers[reg].value = ZeroU32
                    THEN StepOk([p EXCEPT !.cursor = U32ToPos(dest)])
                    ELSE StepOk([p EXCEPT !.cursor = p.cursor + 6])
      [] op = PUSH ->
           IF ~Avail(p, 2) THEN StepPanic(p, "eof")
           ELSE LET arg_idx == ByteAt(p, 1)
                IN  IF arg_idx >= NUM_REGISTERS THEN StepPanic(p, "register")
                    ELSE StepOk([p EXCEPT !.cursor = p.cursor + 2,
                                          !.call_arg_stack =
                                              Append(p.call_arg_stack, p.registers[arg_idx])])
      [] op = CALL ->
           IF ~Avail(p, 6) THEN StepPanic(p, "eof")
           ELSE LET args == p.call_arg_stack
                    proc_id == ReadValueAt(p, 1)
                    result_register == ByteAt(p, 5)
                IN  StepCall([p EXCEPT !.cursor = p.cursor + 6,
                                       !.call_arg_stack = <<>>,
                                       !.result_register = result_register],
                             proc_id, args)
      [] op = RETURN ->
           IF ~Avail(p, 2) THEN StepPanic(p, "eof")
           ELSE StepOk([p EXCEPT !.cursor = p.cursor + 2,
                                 !.return_register_id = ByteAt(p, 1)])
      [] OTHER -> StepErr([p EXCEPT !.cursor = p.cursor + 1])

\* The CALL tail storing the result into register 0 whatever the operand.
call_store_Zero(p, res) ==
    [p EXCEPT !.registers[0] = Register_new(res.tag, res.value),
              !.state = "running"]

\* The tail of the CALL arm (vm.rs:392-394): the returned Register is
\* stored into the result register; the index panics when out of range.
call_store(p, res) ==
    [p EXCEPT !.registers[p.result_register] = Register_new(res.tag, res.value),
              !.state = "running"]

\* The native branch handing the arguments over last first.
value_args_Reversed(args) ==
    [i \in 1 .. Len(args) |->
        [tag |-> args[Len(args) + 1 - i].tag % 256, value |-> args[Len(args) + 1 - i].value]]

\* The native branch of VM::run_program turns each argument into a host
\* Value: the tag goes through `as u8`, the payload is kept.
value_args(args) ==
    [i \in 1 .. Len(args) |-> [tag |-> args[i].tag % 256, value |-> args[i].value]]

(***************************************************************************)
(* Compiler (compiler.rs).  The AST of the external front end:             *)
(*   Expression  [kind |-> "Base", unary, term, follow]                    *)
(*               [kind |-> "BinaryOp", op, lhs, rhs]    [kind |-> other]   *)
(*   Term        [t |-> "Int", n]  [t |-> "Float", bits]                   *)
(*               [t |-> "Ident", name]  [t |-> "Expr", e]  [t |-> other]   *)
(*   Follow      [f |-> "Field", name]                  [f |-> other]      *)
(*   Statement   [s |-> "Expr", expr]  [s |-> "Return", value]             *)
(*               [s |-> "Var", name, value]  [s |-> "If", arms, else_arm]  *)
(*               [s |-> other]                                             *)
(* An Option is [some |-> BOOLEAN, v |-> the value].  The Compiler is a    *)
(* record of its fields; err is the Err a visit has returned ("none"       *)
(* while it has not, "panic" for panic!).  A TempRegister is its id, and   *)
(* its Drop is applied at the place its Rust scope ends.  History, read    *)
(* by no operation: live (ids held by a TempRegister), consumed (live ids  *)
(* an emitted instruction has read as an operand), allocs (one entry per   *)
(* get_free_register), emits (one entry per emitted instruction), chains   *)
(* (the byte layout of each lowered if chain), nstmts and body (the        *)
(* statements of the procedure body visited so far), idents (one entry     *)
(* per identifier visited: its name, the offset the buffer had reached     *)
(* and the local map at that moment).                                      *)
(***************************************************************************)
Some(v) == [some |-> TRUE, v |-> v]
None == [some |-> FALSE, v |-> <<>>]

\* Compiler::new: args maps each parameter name to its position; of two
\* parameters of one name, collect() keeps the later one.
Compiler_new(parameters) ==
    [ bytecode |-> <<>>,
      next_free_register |-> 0,
      free_registers |-> <<>>,
      locals |-> [n \in {} |-> 0],
      args |-> [n \in {parameters[i] : i \in DOMAIN parameters} |->
                  CHOOSE i \in 0 .. (Len(parameters) - 1) :
                      /\ parameters[i + 1] = n
                      /\ \A j \in 0 .. (Len(parameters) - 1) :
                             parameters[j + 1] = n => j <= i],
      err |-> "none",
      live |-> {},
      consumed |-> {},
      allocs |-> <<>>,
      emits |-> <<>>,
      chains |-> <<>>,
      nstmts |-> 0,
      body |-> <<>>,
      idents |-> <<>> ]

\* Vec::remove(0) in place of swap_remove(0): the order of the rest is kept.
swap_remove_first_Shifts(v) == SubSeq(v, 2, Len(v))

\* Vec::swap_remove(0): the last element takes the place of the first.
swap_remove_first(v) ==
    IF Len(v) = 1 THEN <<>>
    ELSE <<v[Len(v)]>> \o SubSeq(v, 2, Len(v) - 1)

\* Compiler::get_free_register
get_free_register(c) ==
    LET id == IF Len(c.free_registers) > 0 THEN c.free_registers[1]
              ELSE c.next_free_register
        c1 == IF Len(c.free_registers) > 0
              THEN [c EXCEPT !.free_registers = swap_remove_first(@)]
              ELSE [c EXCEPT !.next_free_register = @ + 1]
    IN  [ c |-> [c1 EXCEPT !.live = @ \cup {id},
                           !.allocs = Append(@, [ free |-> c.free_registers,
                                                  live |-> c.live,
                                                  next |-> c.next_free_register,
                                                  id |-> id,
                                                  free_after |-> c1.free_registers,
                                                  next_after |-> c1.next_free_register ])],
          reg |-> id ]

\* A TempRegister let go without its Drop (mem::forget): the id is lost.
drop_Forgets(c, id) ==
    [c EXCEPT !.live = @ \ {id},
              !.consumed = @ \ {id}]

\* impl Drop for TempRegister
drop(c, id) ==
    [c EXCEPT !.free_registers = Append(@, id),
              !.live = @ \ {id},
              !.consumed = @ \ {id}]

\* RegisterId::to_id: `self.id as u8`
to_id(id) == id % 256

\* Compiler::emit of one instruction; operands are the temporaries the
\* instruction reads (history only).
emit(c, bytes, operands) ==
    [c EXCEPT !.bytecode = @ \o bytes,
              !.emits = Append(@, [ at |-> Len(c.bytecode),
                                    op |-> bytes[1],
                                    stale |-> c.consumed,
                                    live |-> c.live,
                                    free |-> c.free_registers,
                                    next |-> c.next_free_register ]),
              !.consumed = @ \cup operands]

\* The backpatch left out: the placeholder zeros stay.
patch_Missing(c, location, target) == c

\* The backpatch writing the offset just before the operand, which is
\* where a JUMP itself starts, in place of the target.
patch_ToItself(c, location, target) ==
    [c EXCEPT !.bytecode =
        [k \in 1 .. Len(@) |->
            IF k > location /\ k <= location + 4
            THEN UsizeToLe4(location - 1)[k - location] ELSE @[k]]]

\* self.bytecode[location + i] = target[i] for i in 0..4
patch(c, location, target) ==
    [c EXCEPT !.bytecode =
        [k \in 1 .. Len(@) |->
            IF k > location /\ k <= location + 4 THEN target[k - location] ELSE @[k]]]

Ok(c, reg) == [c |-> c, reg |-> reg]
Failed(c, kind) == [c |-> [c EXCEPT !.err = kind], reg |-> 0 - 1]

BinaryOpcode(op) ==
    CASE op = "Add" -> ADD
      [] op = "Sub" -> SUB
      [] op = "Mul" -> MUL
      [] op = "Div" -> DIV
      [] op = "Less" -> LESS_THAN
      [] op = "LessEq" -> LESS_OR_EQUAL
      [] op = "Eq" -> EQUAL
      [] op = "GreaterEq" -> GREATER_OR_EQUAL
      [] op = "Greater" -> GREATER_THAN
      [] OTHER -> INVALID

\* value::Value::from_string(name).value.data.id as u16: the id the host
\* interns the field name under.
StringId(name) == CASE name = "f" -> 7 [] name = "g" -> 258 [] OTHER -> 9

RECURSIVE visit_block_from(_, _, _)
RECURSIVE visit_statement(_, _)
RECURSIVE visit_expression_impl(_, _, _)
RECURSIVE visit_term(_, _, _, _)
RECURSIVE visit_follows(_, _, _, _)
RECURSIVE visit_if_arms(_, _, _, _, _, _)

\* Compiler::visit_expression
visit_expression(c, expr) == visit_expression_impl(c, expr, FALSE)

\* Compiler::visit_block is visit_block_from(c, block, 1)
visit_block_from(c, block, i) ==
    IF i > Len(block) THEN c
    ELSE LET c1 == visit_statement(c, block[i])
         IN  IF c1.err # "none" THEN c1 ELSE visit_block_from(c1, block, i + 1)

visit_block(c, block) == visit_block_from(c, block, 1)

\* Compiler::visit_expression_statement: the Ok(TempRegister) is a
\* temporary of the `if let` and is dropped when the statement ends.
visit_expression_statement(c, expr) ==
    LET r == visit_expression_impl(c, expr, TRUE)
    IN  IF r.c.err # "none" THEN r.c ELSE drop(r.c, r.reg)

\* Compiler::visit_var
visit_var(c, var) ==
    LET local_id == Cardinality(DOMAIN c.locals)
        c1 == [c EXCEPT !.locals =
                  [n \in DOMAIN c.locals \cup {var.name} |->
                      IF n = var.name THEN local_id ELSE c.locals[n]]]
    IN  IF ~var.value.some THEN c1
        ELSE LET r == visit_expression(c1, var.value.v)
             IN  IF r.c.err # "none" THEN r.c
                 ELSE drop(emit(r.c, <<STORE_LOCAL, to_id(r.reg), local_id % 256>>,
                                {r.reg}),
                           r.reg)

\* Compiler::visit_if, from arm i on.  seen is the layout of the arms
\* lowered so far, start the offset the chain began at (history).
visit_if_arms(c, arms, else_arm, i, patch_after_else, seen) ==
    IF i > Len(arms)
    THEN IF else_arm.some
         THEN LET b == visit_block(c, else_arm.v)
                  target == UsizeToLe4(Len(b.bytecode))
                  RECURSIVE patch_all(_, _)
                  patch_all(cc, k) ==
                      IF k > Len(patch_after_else) THEN cc
                      ELSE patch_all(patch(cc, patch_after_else[k], target), k + 1)
              IN  IF b.err # "none" THEN b
                  ELSE [patch_all(b, 1) EXCEPT !.chains =
                           Append(@, [ arms |-> seen, has_else |-> TRUE,
                                       else_start |-> Len(c.bytecode),
                                       end |-> Len(b.bytecode) ])]
         ELSE [c EXCEPT !.chains =
                  Append(@, [ arms |-> seen, has_else |-> FALSE,
                              else_start |-> Len(c.bytecode),
                              end |-> Len(c.bytecode) ])]
    ELSE LET condition == arms[i][1]
             block == arms[i][2]
             check == visit_expression(c, condition)
         IN  IF check.c.err # "none" THEN check.c
             ELSE LET c1 == emit(check.c,
                                 <<JUMP_FALSE, to_id(check.reg), 0, 0, 0, 0>>,
                                 {check.reg})
                      jump_location == Len(c1.bytecode) - 4
                      c2 == visit_block(c1, block)
                  IN  IF c2.err # "none" THEN drop(c2, check.reg)
                      ELSE LET c3 == IF else_arm.some
                                     THEN emit(c2, <<JUMP, 0, 0, 0, 0>>, {})
                                     ELSE c2
                               patches == IF else_arm.some
                                          THEN Append(patch_after_else, Len(c3.bytecode) - 4)
                                          ELSE patch_after_else
                               c4 == patch(c3, jump_location, UsizeToLe4(Len(c3.bytecode)))
                               arm == [ cond |-> Len(c.bytecode),
                                        jf |-> jump_location - 2,
                                        block |-> Len(c1.bytecode),
                                        block_end |-> Len(c2.bytecode) ]
                           IN  visit_if_arms(drop(c4, check.reg), arms, else_arm, i + 1,
                                             patches, Append(seen, arm))

visit_if(c, arms, else_arm) == visit_if_arms(c, arms, else_arm, 1, <<>>, <<>>)

\* Compiler::visit_statement
visit_statement(c, statement) ==
    CASE statement.s = "Expr" -> visit_expression_statement(c, statement.expr)
      [] statement.s = "Return" /\ statement.value.some ->
           LET r == visit_expression(c, statement.value.v)
           IN  IF r.c.err # "none" THEN r.c
               ELSE drop(emit(r.c, <<RETURN, to_id(r.reg)>>, {r.reg}), r.reg)
      [] statement.s = "Var" -> visit_var(c, statement)
      [] statement.s = "If" -> visit_if(c, statement.arms, statement.else_arm)
      [] OTHER -> [c EXCEPT !.err = "statement"]

\* Compiler::visit_expression_impl
visit_expression_impl(c, expr, is_statement) ==
    CASE expr.kind = "Base" -> visit_term(c, expr.term, expr.follow, is_statement)
      [] expr.kind = "BinaryOp" ->
           LET left == visit_expression(c, expr.lhs)
           IN  IF left.c.err # "none" THEN left
               ELSE LET right == visit_expression(left.c, expr.rhs)
                    IN  IF right.c.err # "none"
                        THEN Ok(drop(right.c, left.reg), 0 - 1)
                        ELSE IF BinaryOpcode(expr.op) = INVALID
                        THEN Failed(drop(drop(right.c, right.reg), left.reg), "panic")
                        ELSE LET res == get_free_register(right.c)
                                 c1 == emit(res.c,
                                            <<BinaryOpcode(expr.op), to_id(left.reg),
                                              to_id(right.reg), to_id(res.reg)>>,
                                            {left.reg, right.reg})
                             IN  Ok(drop(drop(c1, right.reg), left.reg), res.reg)
      [] OTHER -> Failed(c, "expression")

\* Identifier lookup with the local map asked first.
resolve_LocalsFirst(c, name) ==
    IF name \in DOMAIN c.locals
    THEN [map |-> "locals", opcode |-> LOAD_LOCAL, id |-> c.locals[name]]
    ELSE IF name \in DOMAIN c.args
    THEN [map |-> "args", opcode |-> LOAD_ARGUMENT, id |-> c.args[name]]
    ELSE [map |-> "none", opcode |-> INVALID, id |-> 0]

\* The lookup of Term::Ident: self.args.get(name), else
\* self.locals.get(name), else the Err.
resolve(c, name) ==
    IF name \in DOMAIN c.args
    THEN [map |-> "args", opcode |-> LOAD_ARGUMENT, id |-> c.args[name]]
    ELSE IF name \in DOMAIN c.locals
    THEN [map |-> "locals", opcode |-> LOAD_LOCAL, id |-> c.locals[name]]
    ELSE [map |-> "none", opcode |-> INVALID, id |-> 0]

\* The `for follow in follows` loop of visit_term, from follow i on
visit_follows(c, thing, follows, i) ==
    IF i > Len(follows) THEN Ok(c, thing)
    ELSE IF follows[i].f = "Field"
    THEN LET string_id == StringId(follows[i].name) % 65536
         IN  visit_follows(emit(c, <<GET_FIELD, to_id(thing), string_id % 256,
                                     string_id \div 256, to_id(thing)>>, {}),
                           thing, follows, i + 1)
    ELSE Failed(drop(c, thing), "follow")

\* Compiler::visit_term
visit_term(c, term, follows, is_statement) ==
    CASE term.t = "Int" ->
           LET r == get_free_register(c)
               bits == IF term.n < 0 THEN F32OfInt(1, 0 - term.n) ELSE F32OfInt(0, term.n)
           IN  Ok(emit(r.c, <<LOAD_IMMEDIATE, to_id(r.reg), NumberTag>> \o U32ToLe(bits), {}),
                  r.reg)
      [] term.t = "Float" ->
           LET r == get_free_register(c)
           IN  Ok(emit(r.c, <<LOAD_IMMEDIATE, to_id(r.reg), NumberTag>> \o U32ToLe(term.bits),
                       {}),
                  r.reg)
      [] term.t = "Ident" ->
           LET found == resolve(c, term.name)
               c0 == [c EXCEPT !.idents = Append(@, [ name |-> term.name,
                                                      at |-> Len(c.bytecode),
                                                      locals |-> c.locals ])]
           IN  IF found.map = "none" THEN Failed(c0, "identifier")
               ELSE LET target == get_free_register(c0)
                    IN  visit_follows(emit(target.c,
                                           <<found.opcode, to_id(found.id),
                                             to_id(target.reg)>>, {}),
                                      target.reg, follows, 1)
      [] term.t = "Expr" -> visit_expression(c, term.e)
      [] OTHER -> Failed(c, "term")

(***************************************************************************)
(* VM (vm.rs:159-205) and the execution loop, over hand-written buffers.   *)
(***************************************************************************)
U32Of(n) == [hi |-> 0, lo |-> n]

\* Procedure ids that are given buffers, and ids that are invoked.  The
\* third id never has a buffer: invoking it takes the native branch.
ProcIds == {U32Of(1), U32Of(2)}
CallIds == ProcIds \cup {U32Of(3)}

F32Two == [hi |-> 16384, lo |-> 0]     \* 2.0 = 0x40000000
ArgValues == {Register_new(NumberTag, ZeroU32), Register_new(NumberTag, F32One)}
HostValues == {RegisterDefault, Register_new(NumberTag, F32Two)}
NativeOutcomes == {[ok |-> FALSE, value |-> RegisterDefault],
                   [ok |-> TRUE, value |-> Register_new(NumberTag, F32Two)]}

RECURSIVE SeqsUpTo(_, _)
SeqsUpTo(S, n) ==
    IF n = 0 THEN {<<>>}
    ELSE LET shorter == SeqsUpTo(S, n - 1)
         IN  shorter \cup {Append(q, x) : q \in shorter, x \in S}

ArgLists == SeqsUpTo(ArgValues, MaxArgs)

\* tests::test_execute_one
ProgImmediate == <<LOAD_IMMEDIATE, 0, 42, 0, 0, 128, 63, HALT>>
\* tests::test_add
ProgAdd ==
    <<LOAD_IMMEDIATE, 0, 42, 0, 0, 128, 63, LOAD_IMMEDIATE, 1, 42, 0, 0, 128, 63,
      ADD, 0, 1, 2, HALT>>
\* RETURN 1, then register 1 is written again before the loop stops
ProgReturn ==
    <<LOAD_IMMEDIATE, 1, 42, 0, 0, 0, 64, RETURN, 1,
      LOAD_IMMEDIATE, 1, 42, 0, 0, 128, 63, HALT>>
\* returns arg0 * 2
ProgDouble ==
    <<LOAD_ARGUMENT, 0, 0, LOAD_IMMEDIATE, 1, 42, 0, 0, 0, 64, MUL, 0, 1, 2,
      RETURN, 2, HALT>>
\* pushes arg0 and calls procedure 2
ProgCaller == <<LOAD_ARGUMENT, 0, 3, PUSH, 3, CALL, 2, 0, 0, 0, 4, RETURN, 4, HALT>>
\* two call sites: procedure 2 with two arguments, then procedure 3 with one
ProgTwoCalls ==
    <<LOAD_IMMEDIATE, 0, 42, 0, 0, 128, 63, LOAD_IMMEDIATE, 1, 42, 0, 0, 0, 64,
      PUSH, 1, PUSH, 0, CALL, 2, 0, 0, 0, 5, PUSH, 5, CALL, 3, 0, 0, 0, 6,
      RETURN, 6, SET_FIELD>>
\* immediates of other tags than number, the second in the last register
ProgTagged ==
    <<LOAD_IMMEDIATE, 3, 7, 1, 2, 3, 4, LOAD_IMMEDIATE, 15, 0, 255, 255, 255, 255,
      LESS_OR_EQUAL, 3, 3, 4, LOAD_IMMEDIATE, 3, 42, 0, 0, 0, 64, RETURN, 4, HALT>>
\* operands tagged otherwise than number: 1.0 under tag 7, 2.0 under tag 0
ProgMixedTags ==
    <<LOAD_IMMEDIATE, 0, 7, 0, 0, 128, 63, LOAD_IMMEDIATE, 1, 0, 0, 0, 0, 64,
      LESS_THAN, 0, 1, 2, SUB, 0, 1, 0, GREATER_THAN, 4, 0, 4, RETURN, 0, HALT>>
ProgLoop == <<JUMP, 0, 0, 0, 0>>
ProgTruncated == <<LOAD_IMMEDIATE, 0, 42>>
ProgBadReturn == <<RETURN, 16, HALT>>
ProgInvalid == <<PUSH, 0, 200>>
ProgJump ==
    <<LOAD_ARGUMENT, 0, 0, JUMP_TRUE, 0, 16, 0, 0, 0,
      LOAD_IMMEDIATE, 0, 42, 0, 0, 0, 64, HALT>>
ProgLocals ==
    <<LOAD_IMMEDIATE, 0, 42, 0, 0, 128, 63, STORE_LOCAL, 0, 3, LOAD_LOCAL, 3, 2,
      GET_FIELD, 2, 7, 0, 1, DIV, 2, 1, 4, RETURN, 1, HALT>>

Programs ==
    { ProgImmediate, ProgAdd, ProgReturn, ProgDouble, ProgCaller, ProgTwoCalls,
      ProgLoop, ProgTruncated, ProgBadReturn, ProgInvalid, ProgJump, ProgLocals,
      ProgTagged, ProgMixedTags }

\* add_program that never stores the buffer.
add_program_Dropped(table, id, bytecode) == table

\* HashMap::insert that keeps the buffer an id already has.
add_program_KeepsFirst(table, id, bytecode) ==
    [k \in DOMAIN table \cup {id} |-> IF k = id /\ k \notin DOMAIN table THEN bytecode
                                       ELSE table[k]]

\* VM::add_program: HashMap::insert
add_program(table, id, bytecode) ==
    [k \in DOMAIN table \cup {id} |-> IF k = id THEN bytecode ELSE table[k]]

Top == stack[Len(stack)]

\* The opcode the next execute_one decodes (-1: no byte left).
NextOp(p) == IF Avail(p, 1) THEN OpcodeFrom(ByteAt(p, 0)) ELSE 0 - 1

\* What the host and the platform may answer to the next execute_one.
EnvFor(p) ==
    [ field : IF NextOp(p) = GET_FIELD THEN HostValues ELSE {RegisterDefault},
      nan : IF NextOp(p) \in {ADD, SUB, MUL, DIV} THEN NanBits ELSE {ZeroU32},
      cmp : IF NextOp(p) \in {LESS_THAN, LESS_OR_EQUAL, EQUAL, GREATER_OR_EQUAL,
                              GREATER_THAN}
            THEN BOOLEAN ELSE {FALSE},
      native : IF NextOp(p) = CALL THEN NativeOutcomes
               ELSE {[ok |-> FALSE, value |-> RegisterDefault]} ]

\* The Process at the top of the stack is about to decode a readable CALL.
AtCall == pc = "running" /\ Top.state = "running" /\ NextOp(Top) = CALL /\ Avail(Top, 6)

\* History of one step: where it decoded, what, its first operand byte,
\* and for a conditional jump whether the condition payload was nonzero.
TraceEntry(p) ==
    LET a == IF Avail(p, 2) THEN ByteAt(p, 1) ELSE 0 - 1
    IN  [ pos |-> p.cursor,
          op |-> NextOp(p),
          a |-> a,
          nz |-> IF NextOp(p) \in {JUMP_TRUE, JUMP_FALSE} /\ a \in RegIdx
                 THEN p.registers[a].value # ZeroU32 ELSE FALSE ]

WithHistory(old, new) ==
    LET op == NextOp(old)
        a == IF Avail(old, 2) THEN ByteAt(old, 1) ELSE 0 - 1
    IN  [new EXCEPT !.trace = Append(old.trace, TraceEntry(old)),
                    !.pushed = IF op = PUSH /\ a \in RegIdx
                               THEN Append(old.pushed, old.registers[a])
                               ELSE IF op = CALL THEN <<>> ELSE old.pushed,
                    !.passed = IF op = CALL THEN old.pushed ELSE old.passed]

ReplaceTop(q) == [stack EXCEPT ![Len(stack)] = q]

\* The thread's hook state before any registration (hooks.rs:99-102):
\* PROC_HOOKS empty, HOOK_VM not borrowed, no call in the dispatcher.
\* frames are the calls on the thread's stack, outermost first; calls is
\* the history of the dispatcher's entries, registered that of the
\* registrations' outcomes, returned what the outermost call gave back.
NoHooks ==
    [ hooks |-> [k \in {} |-> "none"],
      frames |-> <<>>,
      vm_borrowed |-> FALSE,
      calls |-> <<>>,
      registered |-> <<>>,
      returned |-> <<>> ]

\* History of the add_program calls: last maps each id to the buffer of
\* the most recent call for it, replaced holds the ids for which a call
\* brought a buffer other than the one the id had.
NoneAdded == [last |-> [k \in {} |-> <<>>], replaced |-> {}]

Added(id, bytecode) ==
    [ last |-> [k \in DOMAIN added.last \cup {id} |->
                   IF k = id THEN bytecode ELSE added.last[k]],
      replaced |-> IF id \in DOMAIN added.last /\ added.last[id] # bytecode
                   THEN added.replaced \cup {id} ELSE added.replaced ]

\* VM::add_program, called by the embedder before any invocation
AddProgram(id, bytecode) ==
    /\ pc = "idle"
    /\ bytecodes' = add_program(bytecodes, id, bytecode)
    /\ added' = Added(id, bytecode)
    /\ UNCHANGED <<stack, pc, result, nativeCalls, fault, finished, comp, compiled, host>>

\* VM::run_program called from outside the VM: a registered id gets a
\* fresh Process; any other id goes to the native procedure, whose lookup
\* or call may fail (the unwrap panics).
RunProgram(id, args) ==
    /\ pc = "idle"
    /\ IF id \in DOMAIN bytecodes
       THEN /\ stack' = <<Process_new(0, bytecodes[id], args)>>
            /\ pc' = "running"
            /\ UNCHANGED <<result, nativeCalls, fault>>
       ELSE \E out \in NativeOutcomes :
            /\ nativeCalls' = Append(nativeCalls, [id |-> id, args |-> value_args(args)])
            /\ pc' = IF out.ok THEN "done" ELSE "panicked"
            /\ fault' = IF out.ok THEN fault ELSE "native"
            /\ result' = IF out.ok THEN Register_new(out.value.tag, out.value.value)
                         ELSE result
            /\ UNCHANGED stack
    /\ UNCHANGED <<bytecodes, added, finished, comp, compiled, host>>

\* One iteration of the loop of Process::execute on the innermost Process,
\* with, for CALL, the entry into VM::run_program.
ExecuteOne ==
    /\ pc = "running"
    /\ Top.state = "running"
    /\ Len(Top.trace) < MaxSteps
    /\ \E env \in EnvFor(Top) :
          LET r == execute_one(Top, env)
              q == WithHistory(Top, r.p)
          IN  CASE r.status = "ok" ->
                     /\ stack' = ReplaceTop(q)
                     /\ UNCHANGED <<pc, fault, nativeCalls>>
                [] r.status = "err" ->
                     /\ stack' = ReplaceTop([q EXCEPT !.state = "stopped"])
                     /\ UNCHANGED <<pc, fault, nativeCalls>>
                [] r.status = "panic" ->
                     /\ stack' = ReplaceTop(WithHistory(Top, Top))
                     /\ pc' = "panicked"
                     /\ fault' = r.why
                     /\ UNCHANGED nativeCalls
                [] r.status = "call" /\ r.id \in DOMAIN bytecodes ->
                     /\ Len(stack) < MaxDepth
                     /\ stack' = Append(ReplaceTop([q EXCEPT !.state = "calling"]),
                                        Process_new(0, bytecodes[r.id], r.args))
                     /\ UNCHANGED <<pc, fault, nativeCalls>>
                [] OTHER ->
                     /\ nativeCalls' = Append(nativeCalls,
                                              [id |-> r.id, args |-> value_args(r.args)])
                     /\ IF ~env.native.ok
                        THEN /\ pc' = "panicked"
                             /\ fault' = "native"
                             /\ stack' = ReplaceTop(q)
                        ELSE IF q.result_register >= NUM_REGISTERS
                        THEN /\ pc' = "panicked"
                             /\ fault' = "register"
                             /\ stack' = ReplaceTop(q)
                        ELSE /\ stack' = ReplaceTop(call_store(q, env.native.value))
                             /\ UNCHANGED <<pc, fault>>
    /\ UNCHANGED <<bytecodes, added, result, finished, comp, compiled, host>>

\* The loop has stopped: VM::run_program returns get_return_value, to the
\* outside caller or to the CALL arm of the Process that invoked it.
FinishRun ==
    /\ pc = "running"
    /\ Top.state = "stopped"
    /\ IF Top.return_register_id >= NUM_REGISTERS
       THEN /\ pc' = "panicked"
            /\ fault' = "register"
            /\ UNCHANGED <<stack, result, finished>>
       ELSE IF Len(stack) = 1
       THEN /\ result' = get_return_value(Top)
            /\ pc' = "done"
            /\ stack' = <<>>
            /\ finished' = <<Top>>
            /\ UNCHANGED fault
       ELSE IF stack[Len(stack) - 1].result_register >= NUM_REGISTERS
       THEN /\ pc' = "panicked"
            /\ fault' = "register"
            /\ UNCHANGED <<stack, result, finished>>
       ELSE /\ stack' = Append(SubSeq(stack, 1, Len(stack) - 2),
                               call_store(stack[Len(stack) - 1], get_return_value(Top)))
            /\ finished' = <<Top>>
            /\ UNCHANGED <<pc, fault, result>>
    /\ UNCHANGED <<bytecodes, added, nativeCalls, comp, compiled, host>>

Init ==
    /\ bytecodes = [k \in {} |-> <<>>]
    /\ stack = <<>>
    /\ pc = "idle"
    /\ result = RegisterDefault
    /\ nativeCalls = <<>>
    /\ fault = "none"
    /\ finished = <<>>
    /\ comp = Compiler_new(<<>>)
    /\ compiled = <<>>
    /\ host = NoHooks
    /\ added = NoneAdded

Next ==
    \/ \E id \in ProcIds, bytecode \in Programs : AddProgram(id, bytecode)
    \/ \E id \in CallIds, args \in ArgLists : RunProgram(id, args)
    \/ ExecuteOne
    \/ FinishRun

Spec == Init /\ [][Next]_vars

(***************************************************************************)
(* Compilation of a procedure body, statement by statement, and the run    *)
(* of the buffer it returns.                                               *)
(***************************************************************************)
Base(term) == [kind |-> "Base", unary |-> <<>>, term |-> term, follow |-> <<>>]
IntLit(n) == Base([t |-> "Int", n |-> n])
Ident(name) == Base([t |-> "Ident", name |-> name])
BinOp(op, lhs, rhs) == [kind |-> "BinaryOp", op |-> op, lhs |-> lhs, rhs |-> rhs]
Return(expr) == [s |-> "Return", value |-> Some(expr)]
Var(name, value) == [s |-> "Var", name |-> name, value |-> value]
If(arms, else_arm) == [s |-> "If", arms |-> arms, else_arm |-> else_arm]

RECURSIVE RightNested(_)
\* 1 + (1 + (1 + ...)) with n operators
RightNested(n) == IF n = 0 THEN IntLit(1) ELSE BinOp("Add", IntLit(1), RightNested(n - 1))

\* (a + 1) - (b * 2)
ExprNested == BinOp("Sub", BinOp("Add", Ident("a"), IntLit(1)), BinOp("Mul", Ident("b"), IntLit(2)))

\* if (a) return 1; else if (b) return 2; else return 0
IfElseChain ==
    If(<< <<Ident("a"), <<Return(IntLit(1))>> >>, <<Ident("b"), <<Return(IntLit(2))>> >> >>,
       Some(<<Return(IntLit(0))>>))

\* if (a) return 1; else if (b) var x = 2      (no else)
IfNoElse ==
    If(<< <<Ident("a"), <<Return(IntLit(1))>> >>,
          <<Ident("b"), <<Var("x", Some(IntLit(2)))>> >> >>,
       None)

\* if (a < b) { if (b) return 1; else {} } else { a; }
IfInIf ==
    If(<< <<BinOp("Less", Ident("a"), Ident("b")),
            <<If(<< <<Ident("b"), <<Return(IntLit(1))>> >> >>, Some(<<>>))>> >> >>,
       Some(<<[s |-> "Expr", expr |-> Ident("a")]>>))

\* -a
Negated == [kind |-> "Base", unary |-> <<"Neg">>, term |-> [t |-> "Ident", name |-> "a"],
            follow |-> <<>>]

\* (a)[...]
ParenIndexed == [kind |-> "Base", unary |-> <<>>, term |-> [t |-> "Expr", e |-> Ident("a")],
                 follow |-> <<[f |-> "Index"]>>]

\* if (a) { var x = 1; var x = 2; var y = 3 }
Redeclare ==
    If(<< <<Ident("a"), <<Var("x", Some(IntLit(1))), Var("x", Some(IntLit(2))),
                          Var("y", Some(IntLit(3)))>> >> >>,
       None)

\* An identifier with its follows: a.f, a.f.g, a[...]
Followed(name, follows) ==
    [kind |-> "Base", unary |-> <<>>, term |-> [t |-> "Ident", name |-> name],
     follow |-> follows]
FieldFollow(name) == [f |-> "Field", name |-> name]
FieldOnce == Followed("a", <<FieldFollow("f")>>)
FieldTwice == Followed("a", <<FieldFollow("f"), FieldFollow("g")>>)
IdentIndexed == Followed("a", <<[f |-> "Index"]>>)

\* The statements a body is made of.
StatementPool ==
    << Return(Ident("a")),
       Return(ExprNested),
       [s |-> "Expr", expr |-> BinOp("Less", Ident("a"), Ident("b"))],
       Var("x", Some(IntLit(1))),
       Return(Ident("x")),
       IfElseChain,
       IfNoElse,
       IfInIf,
       Return(RightNested(DeepNest)),
       [s |-> "While"],
       Return(Negated),
       Return(BinOp("Mod", Ident("a"), Ident("b"))),
       Return(ParenIndexed),
       Return([kind |-> "TernaryOp"]),
       Return(Base([t |-> "String"])),
       Var("a", Some(IntLit(2))),
       Redeclare,
       Return(FieldOnce),
       Return(FieldTwice),
       Return(IdentIndexed) >>

\* The parameter list of the compiled procedure.
Parameters == <<"a", "b">>

\* The id the compiled buffer is registered under.
CompiledId == U32Of(1)

\* One iteration of visit_block's loop in Compiler::compile: an Err ends
\* compile with that Err (`?`), a panic ends the thread.
VisitStatement(statement) ==
    /\ pc = "idle"
    /\ compiled = <<>>
    /\ comp.nstmts < MaxStmts
    /\ LET c1 == visit_statement(comp, statement)
       IN  /\ comp' = [c1 EXCEPT !.nstmts = @ + 1, !.body = Append(@, statement)]
           /\ compiled' = IF c1.err \in {"none", "panic"} THEN <<>>
                          ELSE <<[ok |-> FALSE, err |-> c1.err, bytecode |-> <<>>]>>
           /\ pc' = IF c1.err = "panic" THEN "panicked" ELSE pc
           /\ fault' = IF c1.err = "panic" THEN "binop" ELSE fault
    /\ UNCHANGED <<bytecodes, added, stack, result, nativeCalls, finished, host>>

\* The end of Compiler::compile: Ok(self.bytecode.clone())
CompileReturn ==
    /\ pc = "idle"
    /\ compiled = <<>>
    /\ compiled' = <<[ok |-> TRUE, err |-> "none", bytecode |-> comp.bytecode]>>
    /\ UNCHANGED <<bytecodes, added, stack, pc, result, nativeCalls, fault, finished, comp, host>>

\* What the embedder appends to the returned buffer before it registers
\* it: nothing, or a terminator opcode.
Tails == {<<>>, <<HALT>>}

\* The argument lists the compiled procedure is invoked with: every list
\* no longer than its parameter list.
CompiledArgLists == SeqsUpTo(ArgValues, Len(Parameters))

\* The returned buffer is registered (hook_by_id_with_bytecode_dont_use_this
\* hands it to VM::add_program).
RegisterCompiled ==
    /\ Len(compiled) = 1
    /\ compiled[1].ok
    /\ CompiledId \notin DOMAIN bytecodes
    /\ \E tail \in Tails : AddProgram(CompiledId, compiled[1].bytecode \o tail)

\* The dispatcher invokes the compiled procedure.
RunCompiled(args) ==
    /\ CompiledId \in DOMAIN bytecodes
    /\ RunProgram(CompiledId, args)

InitCompile ==
    /\ bytecodes = [k \in {} |-> <<>>]
    /\ stack = <<>>
    /\ pc = "idle"
    /\ result = RegisterDefault
    /\ nativeCalls = <<>>
    /\ fault = "none"
    /\ finished = <<>>
    /\ comp = Compiler_new(Parameters)
    /\ compiled = <<>>
    /\ host = NoHooks
    /\ added = NoneAdded

NextCompile ==
    \/ \E i \in DOMAIN StatementPool : VisitStatement(StatementPool[i])
    \/ CompileReturn
    \/ RegisterCompiled
    \/ \E args \in CompiledArgLists : RunCompiled(args)
    \/ ExecuteOne
    \/ FinishRun

SpecCompile == InitCompile /\ [][NextCompile]_vars

(***************************************************************************)
(* The hook registry and the dispatcher (hooks.rs).  Rust hooks, original  *)
(* procedures and native procedures are host code: what they return, and   *)
(* which procedures they call meanwhile, is the environment's choice.      *)
(***************************************************************************)
\* Ids the host calls and hooks; the third never gets a buffer.
HookIds == {U32Of(1), U32Of(2), U32Of(3)}
VmHookIds == {U32Of(1), U32Of(2)}

\* pushes arg0 and calls procedure 3, returns what came back
ProgCallsNative ==
    <<LOAD_ARGUMENT, 0, 0, PUSH, 0, CALL, 3, 0, 0, 0, 1, RETURN, 1, HALT>>
HookPrograms == {ProgDouble, ProgCallsNative}

\* Argument lists of an intercepted call (host Values: tag byte, payload).
HostArgLists ==
    { <<[tag |-> NumberTag, value |-> F32One]>>,
      <<[tag |-> NumberTag, value |-> F32One], [tag |-> NumberTag, value |-> ZeroU32]>> }

\* What host code gives back: a value, or an error / failed call.
HostOutcomes ==
    {[ok |-> TRUE, value |-> Register_new(NumberTag, F32Two)],
     [ok |-> FALSE, value |-> RegisterDefault]}

\* call_proc_by_id_hook, VM arm: each Value becomes a Register, the tag
\* byte widened to u32, the payload kept.
register_args(args) ==
    [i \in 1 .. Len(args) |-> Register_new(args[i].tag, args[i].value)]

\* call_proc_by_id_hook, VM arm: the returned Register becomes a Value,
\* the tag through `as u8`.
ret_value(ret) == [tag |-> ret.tag % 256, value |-> ret.value]

\* Value::null()
NullValue == [tag |-> 0, value |-> ZeroU32]

Frame(k, id, args) == [k |-> k, id |-> id, args |-> args, got |-> <<>>]

TopFrame == host.frames[Len(host.frames)]

\* Host code that is not inside any call has nothing borrowed; every call
\* on the stack entered through the dispatcher, whose match holds the
\* shared borrow of PROC_HOOKS until it returns.
HooksBorrowed == host.frames # <<>>

\* The thread after value v came back to the caller of the frame that was
\* just popped (h is the hook state without that frame).
Deliver(h, v) ==
    IF h.frames = <<>>
    THEN [host |-> [h EXCEPT !.returned = <<v>>], pc |-> "idle"]
    ELSE [host |-> [h EXCEPT !.frames[Len(h.frames)].got = Append(@, v)], pc |-> "host"]

PopFrame(h) == [h EXCEPT !.frames = SubSeq(@, 1, Len(@) - 1)]

\* hook_by_id: borrow_mut of PROC_HOOKS, then insert into a vacant entry.
HookById(id) ==
    /\ pc \in {"idle", "host"}
    /\ Len(host.registered) < MaxRegs
    /\ IF HooksBorrowed
       THEN /\ pc' = "panicked"
            /\ fault' = "hooks_borrowed"
            /\ UNCHANGED host
       ELSE /\ host' = [host EXCEPT
                  !.hooks = IF id \in DOMAIN host.hooks THEN @
                            ELSE [k \in DOMAIN @ \cup {id} |-> IF k = id THEN "Rust" ELSE @[k]],
                  !.registered = Append(@,
                      [id |-> id, kind |-> "Rust",
                       out |-> IF id \in DOMAIN host.hooks THEN "AlreadyHooked" ELSE "Ok"])]
            /\ UNCHANGED <<pc, fault>>
    /\ UNCHANGED <<bytecodes, added, stack, result, nativeCalls, finished, comp, compiled>>

\* hook_by_id_with_bytecode_dont_use_this: as hook_by_id, a vacant entry
\* also gets the buffer into the VM; the Result of the closure is dropped
\* and the function returns ().
HookByIdWithBytecode(id, hook) ==
    /\ pc \in {"idle", "host"}
    /\ Len(host.registered) < MaxRegs
    /\ IF HooksBorrowed
       THEN /\ pc' = "panicked"
            /\ fault' = "hooks_borrowed"
            /\ UNCHANGED <<host, bytecodes, added>>
       ELSE /\ host' = [host EXCEPT
                  !.hooks = IF id \in DOMAIN host.hooks THEN @
                            ELSE [k \in DOMAIN @ \cup {id} |-> IF k = id THEN "VM" ELSE @[k]],
                  !.registered = Append(@, [id |-> id, kind |-> "VM", out |-> "unit"])]
            /\ bytecodes' = IF id \in DOMAIN host.hooks THEN bytecodes
                            ELSE add_program(bytecodes, id, hook)
            /\ added' = IF id \in DOMAIN host.hooks THEN added ELSE Added(id, hook)
            /\ UNCHANGED <<pc, fault>>
    /\ UNCHANGED <<stack, result, nativeCalls, finished, comp, compiled>>

\* One entry of the dispatcher's history: the id, the arguments as they
\* arrived, the hook the id had, where the call was routed, what the
\* routed-to code was given, and the kind of code that made the call
\* ("none": the host's top level).
CallEntry(id, args, route, given) ==
    [ id |-> id, args |-> args, route |-> route, given |-> given,
      hook |-> IF id \in DOMAIN host.hooks THEN host.hooks[id] ELSE "none",
      from |-> IF host.frames = <<>> THEN "none" ELSE TopFrame.k ]

\* call_proc_by_id_hook up to the point where the routed-to code runs.
\* No hook: the original procedure, with the arguments untouched.  Rust
\* hook: the hook function.  VM hook: the arguments become Registers,
\* HOOK_VM is borrowed mutably (a panic when it already is) and
\* VM::run_program starts.
CallProcById(id, args) ==
    /\ pc \in {"idle", "host"}
    /\ Len(host.calls) < MaxCalls
    /\ Len(host.frames) < MaxFrames
    /\ CASE id \notin DOMAIN host.hooks ->
              /\ host' = [host EXCEPT
                     !.frames = Append(@, Frame("original", id, args)),
                     !.calls = Append(@, CallEntry(id, args, "original", args))]
              /\ pc' = "host"
              /\ UNCHANGED <<stack, fault, nativeCalls>>
         [] id \in DOMAIN host.hooks /\ host.hooks[id] = "Rust" ->
              /\ host' = [host EXCEPT
                     !.frames = Append(@, Frame("hook", id, args)),
                     !.calls = Append(@, CallEntry(id, args, "rust", args))]
              /\ pc' = "host"
              /\ UNCHANGED <<stack, fault, nativeCalls>>
         [] id \in DOMAIN host.hooks /\ host.hooks[id] = "VM" /\ host.vm_borrowed ->
              /\ host' = [host EXCEPT
                     !.calls = Append(@, CallEntry(id, args, "vm_borrowed", <<>>))]
              /\ pc' = "panicked"
              /\ fault' = "vm_borrowed"
              /\ UNCHANGED <<stack, nativeCalls>>
         [] OTHER ->
              /\ host' = [host EXCEPT
                     !.frames = Append(@, Frame("vm", id, args)),
                     !.vm_borrowed = TRUE,
                     !.calls = Append(@, CallEntry(id, args, "vm", register_args(args)))]
              /\ IF id \in DOMAIN bytecodes
                 THEN /\ stack' = <<Process_new(0, bytecodes[id], register_args(args))>>
                      /\ pc' = "running"
                      /\ UNCHANGED <<fault, nativeCalls>>
                 ELSE /\ nativeCalls' = Append(nativeCalls,
                              [id |-> id, args |-> value_args(register_args(args))])
                      /\ pc' = "panicked"
                      /\ fault' = "native"
                      /\ UNCHANGED stack
    /\ UNCHANGED <<bytecodes, added, result, finished, comp, compiled>>

\* Host code returns.  The original procedure returns a value.  A Rust
\* hook returns Ok(value), or Err, which the dispatcher reports through
\* stack_trace and turns into null.  A native procedure called from CALL
\* returns a value that the CALL arm stores, or its lookup or call fails
\* and the unwrap panics.
HostReturn(out) ==
    /\ pc = "host"
    /\ host.frames # <<>>
    /\ TopFrame.k = "original" => out.ok
    /\ CASE TopFrame.k = "native" /\ ~out.ok ->
              /\ pc' = "panicked"
              /\ fault' = "native"
              /\ UNCHANGED <<host, stack>>
         [] TopFrame.k = "native" /\ out.ok /\ Top.result_register >= NUM_REGISTERS ->
              /\ pc' = "panicked"
              /\ fault' = "register"
              /\ UNCHANGED <<host, stack>>
         [] TopFrame.k = "native" /\ out.ok /\ Top.result_register < NUM_REGISTERS ->
              /\ host' = PopFrame(host)
              /\ stack' = ReplaceTop(call_store(Top, out.value))
              /\ pc' = "running"
              /\ UNCHANGED fault
         [] OTHER ->
              LET v == IF out.ok THEN out.value ELSE NullValue
                  d == Deliver(PopFrame(host), v)
              IN  /\ host' = d.host
                  /\ pc' = d.pc
                  /\ UNCHANGED <<stack, fault>>
    /\ UNCHANGED <<bytecodes, added, result, nativeCalls, finished, comp, compiled>>

\* The CALL arm of execute_one for an id without a buffer, up to the call
\* of the native procedure (vm.rs:181-194); the procedure then runs as
\* host code on top of the suspended Process.
NativeEnter ==
    /\ AtCall
    /\ ReadValueAt(Top, 1) \notin DOMAIN bytecodes
    /\ Len(Top.trace) < MaxSteps
    /\ Len(host.frames) < MaxFrames
    /\ LET r == execute_one(Top, [field |-> RegisterDefault, nan |-> ZeroU32,
                                  native |-> [ok |-> FALSE, value |-> RegisterDefault]])
           q == WithHistory(Top, r.p)
       IN  /\ stack' = ReplaceTop([q EXCEPT !.state = "calling"])
           /\ nativeCalls' = Append(nativeCalls, [id |-> r.id, args |-> value_args(r.args)])
           /\ host' = [host EXCEPT
                  !.frames = Append(@, Frame("native", r.id, value_args(r.args)))]
           /\ pc' = "host"
    /\ UNCHANGED <<bytecodes, added, result, fault, finished, comp, compiled>>

\* Every other iteration of the loop of Process::execute.
VmStep ==
    /\ ~(AtCall /\ ReadValueAt(Top, 1) \notin DOMAIN bytecodes)
    /\ ExecuteOne

\* call_proc_by_id_hook after VM::run_program returned: the borrow of
\* HOOK_VM ends and the Register goes back as a Value.
DispatchVmReturn ==
    /\ pc = "done"
    /\ host.frames # <<>>
    /\ TopFrame.k = "vm"
    /\ LET d == Deliver([PopFrame(host) EXCEPT !.vm_borrowed = FALSE], ret_value(result))
       IN  /\ host' = d.host
           /\ pc' = d.pc
    /\ UNCHANGED <<bytecodes, added, stack, result, nativeCalls, fault, finished, comp, compiled>>

NextHooks ==
    \/ \E id \in HookIds : HookById(id)
    \/ \E id \in VmHookIds, hook \in HookPrograms : HookByIdWithBytecode(id, hook)
    \/ \E id \in HookIds, args \in HostArgLists : CallProcById(id, args)
    \/ \E out \in HostOutcomes : HostReturn(out)
    \/ NativeEnter
    \/ VmStep
    \/ FinishRun
    \/ DispatchVmReturn

SpecHooks == Init /\ [][NextHooks]_vars

(***************************************************************************)
(* Properties.                                                             *)
(***************************************************************************)
NonEffectful == {HALT, SET_FIELD, INVALID}

\* The steps of p that decoded RETURN.
ReturnSteps(p) == {k \in DOMAIN p.trace : p.trace[k].op = RETURN}

LastReturn(p) == CHOOSE k \in ReturnSteps(p) : \A j \in ReturnSteps(p) : j <= k

Fresh(p) ==
    /\ \A i \in RegIdx : p.registers[i] = [tag |-> 0, value |-> ZeroU32]
    /\ \A i \in RegIdx : p.locals[i] = [tag |-> 0, value |-> ZeroU32]
    /\ p.cursor = 0
    /\ p.call_arg_stack = <<>>
    /\ p.return_register_id = 0
    /\ p.code \in {bytecodes[id] : id \in DOMAIN bytecodes}

DestAt(code, pos) ==
    LET op == OpcodeFrom(code[pos + 1])
    IN  CASE op = LOAD_IMMEDIATE -> code[pos + 2]
          [] op \in {LOAD_ARGUMENT, LOAD_LOCAL} -> code[pos + 3]
          [] op = GET_FIELD -> code[pos + 5]
          [] op \in ADD .. GREATER_THAN -> code[pos + 4]
          [] op = CALL -> code[pos + 6]
          [] OTHER -> 0 - 1

SameData(p, q) ==
    /\ q.registers = p.registers
    /\ q.locals = p.locals
    /\ q.args = p.args
    /\ q.call_arg_stack = p.call_arg_stack
    /\ q.return_register_id = p.return_register_id

\* C3, on one step: the loop of the innermost Process stops in this step
\* exactly when the step decodes HALT, SET_FIELD or a byte that decodes to
\* INVALID; the stopping step leaves registers, locals, arguments,
\* call-argument stack and return register id as they were; and in every
\* Process only the last step taken decoded an opcode without a case.
C3_Step ==
    /\ (pc = "running" /\ Top.state = "running" /\ stack' # stack) =>
          /\ Len(stack') >= Len(stack)
          /\ (stack'[Len(stack)].state = "stopped") <=> (NextOp(Top) \in NonEffectful)
          /\ (NextOp(Top) \in NonEffectful) =>
                /\ SameData(Top, stack'[Len(stack)])
                /\ pc' = "running"
    /\ \A i \in DOMAIN stack' :
          \A k \in DOMAIN stack'[i].trace :
              (stack'[i].trace[k].op \in NonEffectful) =>
                  /\ k = Len(stack'[i].trace)
                  /\ stack'[i].state = "stopped"

\* C3: the execution loop stops at the first step that decodes an opcode
\* with no effectful case, that step changes no data of the Process, and
\* every earlier step decoded an effectful opcode.
C3_StopsAtFirstNonEffectful == [][C3_Step]_vars

\* C3 witness: a loop stopped by a byte decoding to INVALID after an
\* effectful step, the pushed argument still on the stack.
C3_Witness ==
    /\ pc = "running"
    /\ Top.state = "stopped"
    /\ Len(Top.trace) = 2
    /\ Top.trace[2].op = INVALID
    /\ Top.trace[1].op = PUSH
    /\ Len(Top.call_arg_stack) = 1

\* The result register operand of the CALL a calling Process is in.
CallResultOperand(p) == p.code[p.cursor]

\* C10, on one step.  A CALL step hands over exactly the registers pushed
\* since the previous CALL, in push order (to the new Process, or to the
\* native procedure), and leaves the caller's call-argument stack empty
\* and its other data alone; the step that brings the result back writes
\* it into the result register operand and nothing else.
C10_Step ==
    /\ (pc = "running" /\ Top.state = "running" /\ NextOp(Top) = CALL
            /\ Len(stack') = Len(stack) + 1) =>
          LET caller == stack'[Len(stack)]
              callee == stack'[Len(stack')]
          IN  /\ callee.args = Top.pushed
              /\ caller.call_arg_stack = <<>>
              /\ caller.registers = Top.registers
              /\ caller.locals = Top.locals
              /\ caller.args = Top.args
              /\ caller.return_register_id = Top.return_register_id
    /\ (pc = "running" /\ Top.state = "running" /\ NextOp(Top) = CALL
            /\ Len(stack') = Len(stack) /\ stack' # stack /\ pc' = "running") =>
          LET caller == stack'[Len(stack)]
          IN  /\ nativeCalls'[Len(nativeCalls')].args = Top.pushed
              /\ caller.call_arg_stack = <<>>
              /\ \A i \in RegIdx :
                     i # CallResultOperand(caller) => caller.registers[i] = Top.registers[i]
              /\ caller.locals = Top.locals
              /\ caller.args = Top.args
              /\ caller.return_register_id = Top.return_register_id
    /\ (pc = "running" /\ Top.state = "stopped" /\ Len(stack') = Len(stack) - 1
            /\ Len(stack') >= 1) =>
          LET before == stack[Len(stack) - 1]
              caller == stack'[Len(stack')]
          IN  /\ caller.registers =
                     [before.registers EXCEPT ![CallResultOperand(before)] =
                         Top.registers[Top.return_register_id]]
              /\ caller.call_arg_stack = <<>>
              /\ caller.locals = before.locals
              /\ caller.args = before.args
              /\ caller.return_register_id = before.return_register_id

\* C10: CALL passes exactly the registers pushed since the previous CALL
\* (or process start), in push order, leaves the caller's call-argument
\* stack empty, writes the callee's result into resultReg and changes no
\* other register, no local, no argument and not the return register id.
C10_CallFrameEffect == [][C10_Step]_vars

\* C10 witness: the first call of ProgTwoCalls has come back: two
\* registers (2.0 then 1.0) were passed, the callee doubled the first, and
\* 4.0 sits in register 5 while registers 0 and 1 are as before.
C10_Witness ==
    /\ pc = "running"
    /\ Len(stack) = 1
    /\ Top.code = ProgTwoCalls
    /\ Top.passed = <<[tag |-> NumberTag, value |-> F32Two],
                      [tag |-> NumberTag, value |-> F32One]>>
    /\ Top.registers[5] = [tag |-> NumberTag, value |-> [hi |-> 16512, lo |-> 0]]
    /\ Top.registers[0] = [tag |-> NumberTag, value |-> F32One]
    /\ Top.call_arg_stack = <<>>

\* The Process that runs the buffer Compiler::compile returned.
RunsCompiled ==
    /\ Len(compiled) = 1
    /\ compiled[1].ok
    /\ Len(stack) = 1
    /\ stack[1].code = compiled[1].bytecode

\* C4 as claimed: a run of a Compiler-produced buffer never reads an
\* opcode or operand at or past the end of the buffer (every end of
\* control flow holds a terminator opcode).
C4_Original_CompiledNeverReadsPastEnd ==
    ~(RunsCompiled /\ pc = "panicked" /\ fault = "eof")

\* C5 as claimed: a run of a Compiler-produced buffer never indexes a
\* register, a local or an argument out of range, whatever the body and
\* the invocation.
C5_Original_CompiledNeverIndexesOutOfRange ==
    ~(RunsCompiled /\ pc = "panicked" /\ fault \in {"register", "local", "argument"})

\* C6 as claimed: the Compiler never has more than 16 temporaries live at
\* once: every id it hands out is in 0..15.
C6_Original_AtMost16Temporaries ==
    /\ \A k \in DOMAIN comp.allocs : comp.allocs[k].id < NUM_REGISTERS
    /\ \A k \in DOMAIN comp.emits : Cardinality(comp.emits[k].live) <= NUM_REGISTERS

Min(S) == CHOOSE x \in S : \A y \in S : x <= y
Range(q) == {q[k] : k \in DOMAIN q}

\* C7 as claimed: an acquisition returns the smallest id of a non-empty
\* free-list and removes exactly that id, else the counter's value, which
\* it increments.
C7_Original_AcquireSmallest ==
    \A k \in DOMAIN comp.allocs :
        LET a == comp.allocs[k]
        IN  IF a.free # <<>>
            THEN /\ a.id = Min(Range(a.free))
                 /\ Range(a.free_after) = Range(a.free) \ {a.id}
                 /\ Len(a.free_after) = Len(a.free) - 1
                 /\ a.next_after = a.next
            ELSE /\ a.id = a.next
                 /\ a.next_after = a.next + 1
                 /\ a.free_after = a.free

\* C7 amended: an acquisition returns the id at the front of a non-empty
\* free-list (not always the smallest) and removes exactly that id, the
\* last id of the list taking its place; with an empty free-list it
\* returns the counter's value and increments it.
C7_AcquireFront ==
    \A k \in DOMAIN comp.allocs :
        LET a == comp.allocs[k]
            n == Len(a.free)
        IN  IF a.free # <<>>
            THEN /\ a.id = a.free[1]
                 /\ Len(a.free_after) = n - 1
                 /\ \A j \in 1 .. (n - 1) :
                        a.free_after[j] = IF j = 1 THEN a.free[n] ELSE a.free[j]
                 /\ a.next_after = a.next
            ELSE /\ a.id = a.next
                 /\ a.next_after = a.next + 1
                 /\ a.free_after = a.free

\* C7 witness: an acquisition from a free-list of three ids whose front
\* is not the smallest.
C7_Witness ==
    \E k \in DOMAIN comp.allocs :
        /\ Len(comp.allocs[k].free) = 3
        /\ comp.allocs[k].id = comp.allocs[k].free[1]
        /\ comp.allocs[k].id # Min(Range(comp.allocs[k].free))

\* C8 as claimed: when an instruction is emitted, no live temporary has
\* already been read as an operand by an earlier instruction (a consumed
\* temporary is back in the free-list before the next emission).
C8_Original_ConsumedTemporaryReleased ==
    \A k \in DOMAIN comp.emits : comp.emits[k].stale = {}

\* The steps of p that decoded at offset x, and whether p decoded
\* anywhere in lo .. hi - 1.
StepsAt(p, x) == {k \in DOMAIN p.trace : p.trace[k].pos = x}
RanIn(p, lo, hi) == \E k \in DOMAIN p.trace : lo <= p.trace[k].pos /\ p.trace[k].pos < hi

\* Where control was after step k of p.
PosAfter(p, k) == IF k < Len(p.trace) THEN p.trace[k + 1].pos ELSE p.cursor

\* The condition of arm i of chain d was found nonzero by its JUMP_FALSE.
CondTrue(p, d, i) == \E k \in StepsAt(p, d.arms[i].jf) : p.trace[k].nz

\* What C9 says of the run p of one lowered chain d that has an else
\* block: a block runs only for the first arm whose condition is nonzero;
\* once an arm matched, no later condition or block and not the else
\* block runs; the else block runs only after every condition was found
\* zero; each JUMP_FALSE continues with its block or with the next arm
\* (the else block after the last), each block ends by going to the end
\* of the chain; and when control is there, exactly one block has run.
ChainRunsOneBlock(p, d) ==
    LET n == Len(d.arms)
        matched == {i \in 1 .. n : CondTrue(p, d, i)}
        done == \A k \in DOMAIN p.trace : k < Len(p.trace) \/ pc # "panicked"
    IN  /\ \A i \in 1 .. n :
              RanIn(p, d.arms[i].block, d.arms[i].block_end) =>
                  /\ CondTrue(p, d, i)
                  /\ \A j \in 1 .. (i - 1) :
                         StepsAt(p, d.arms[j].jf) # {} /\ ~CondTrue(p, d, j)
        /\ \A i \in matched :
              /\ ~RanIn(p, d.else_start, d.end)
              /\ \A j \in (i + 1) .. n : ~RanIn(p, d.arms[j].cond, d.arms[j].block_end)
        /\ RanIn(p, d.else_start, d.end) =>
              \A i \in 1 .. n : StepsAt(p, d.arms[i].jf) # {} /\ ~CondTrue(p, d, i)
        /\ \A k \in DOMAIN p.trace :
              (k < Len(p.trace) \/ pc # "panicked") =>
                  \A i \in 1 .. n :
                      /\ p.trace[k].pos = d.arms[i].jf =>
                            PosAfter(p, k) = IF p.trace[k].nz THEN d.arms[i].block
                                             ELSE IF i < n THEN d.arms[i + 1].cond
                                             ELSE d.else_start
                      /\ p.trace[k].pos = d.arms[i].block_end => PosAfter(p, k) = d.end
        /\ (p.cursor = d.end /\ StepsAt(p, d.arms[1].cond) # {}) =>
              \/ /\ Cardinality(matched) = 1
                 /\ \A i \in matched :
                        d.arms[i].block < d.arms[i].block_end =>
                            RanIn(p, d.arms[i].block, d.arms[i].block_end)
              \/ /\ matched = {}
                 /\ \A i \in 1 .. n : StepsAt(p, d.arms[i].jf) # {}
                 /\ d.else_start < d.end => RanIn(p, d.else_start, d.end)

\* C9: running a compiled if/else-if/else chain that has an else block
\* executes exactly one block, that of the first arm whose condition
\* register payload is nonzero or else the else block, evaluates no
\* condition after the matching arm, and leaves the cursor just after the
\* else block on every path.
C9_IfElseChainRunsOneBlock ==
    RunsCompiled =>
        \A c \in DOMAIN comp.chains :
            (comp.chains[c].has_else /\ comp.chains[c].arms # <<>>) =>
                ChainRunsOneBlock(stack[1], comp.chains[c])

\* C9 witness: a chain of two arms and an else block has been left with
\* the first condition zero, the second nonzero, and the second block run.
C9_Witness ==
    /\ RunsCompiled
    /\ \E c \in DOMAIN comp.chains :
          LET d == comp.chains[c]
          IN  /\ d.has_else
              /\ Len(d.arms) = 2
              /\ stack[1].cursor = d.end
              /\ StepsAt(stack[1], d.arms[1].jf) # {}
              /\ ~CondTrue(stack[1], d, 1)
              /\ CondTrue(stack[1], d, 2)
              /\ RanIn(stack[1], d.arms[2].block, d.arms[2].block_end)
              /\ ~RanIn(stack[1], d.arms[1].block, d.arms[1].block_end)
              /\ ~RanIn(stack[1], d.else_start, d.end)

\* C11, on one step.  A CALL whose id has no buffer adds exactly one
\* native invocation, for that id, carrying every register pushed since
\* the previous CALL in push order (tag through `as u8`, payload as is),
\* and creates no Process; no other step of the loop, a CALL to a
\* registered id included, adds a native invocation.
C11_Step ==
    /\ (AtCall /\ ReadValueAt(Top, 1) \notin DOMAIN bytecodes /\ stack' # stack) =>
          LET last == nativeCalls'[Len(nativeCalls')]
          IN  /\ Len(nativeCalls') = Len(nativeCalls) + 1
              /\ SubSeq(nativeCalls', 1, Len(nativeCalls)) = nativeCalls
              /\ last.id = ReadValueAt(Top, 1)
              /\ Len(last.args) = Len(Top.pushed)
              /\ \A i \in 1 .. Len(Top.pushed) :
                     /\ last.args[i].value = Top.pushed[i].value
                     /\ last.args[i].tag = Top.pushed[i].tag % 256
              /\ Len(stack') = Len(stack)
              /\ stack'[Len(stack)].code = Top.code
    /\ (pc = "running" /\ nativeCalls' # nativeCalls) =>
          AtCall /\ ReadValueAt(Top, 1) \notin DOMAIN bytecodes

\* C11: each CALL whose procedure id has no registered buffer invokes the
\* native fallback exactly once, with the full popped argument list in
\* push order, and no Process is created for that id.
C11_NativeFallbackOncePerCall == [][C11_Step]_vars

\* C11 witness: ProgTwoCalls ran with no buffer under id 2: its first
\* CALL went to the native procedure with 2.0 then 1.0, as pushed, and the
\* calling Process is still the only one.
C11_Witness ==
    /\ pc = "running"
    /\ Len(stack) = 1
    /\ Top.code = ProgTwoCalls
    /\ Len(nativeCalls) = 1
    /\ nativeCalls[1].id = U32Of(2)
    /\ nativeCalls[1].args = <<[tag |-> NumberTag, value |-> F32Two],
                               [tag |-> NumberTag, value |-> F32One]>>
    /\ Top.passed = <<[tag |-> NumberTag, value |-> F32Two],
                      [tag |-> NumberTag, value |-> F32One]>>

\* Entry k of the dispatcher's history is a call made by a native
\* procedure (itself called by CALL from a VM program the dispatcher
\* started) for an id that has a VM hook.
ReentersVm(k) ==
    /\ host.calls[k].from = "native"
    /\ host.calls[k].hook = "VM"

\* C12 as claimed: when a native procedure reached through the native
\* fallback of a VM program calls a procedure with a VM hook, the
\* dispatcher starts the nested program (which then runs to completion and
\* hands its value back): the call is routed into run_program and the
\* thread does not panic on the borrow of the VM.
C12_Original_NestedVmProgramRuns ==
    /\ \A k \in DOMAIN host.calls : ReentersVm(k) => host.calls[k].route = "vm"
    /\ ~(pc = "panicked" /\ fault = "vm_borrowed")

\* C13, on one step.  After the step the table holds, for every id ever
\* registered, the buffer of the most recent add_program for that id (a
\* later registration replaces, and touches no other id); a run_program
\* for a registered id, from the host or from CALL, starts a Process on
\* exactly that buffer.
C13_Step ==
    /\ bytecodes' = added'.last
    /\ \A id \in CallIds, args \in ArgLists :
          (RunProgram(id, args) /\ id \in DOMAIN added.last) =>
              /\ Len(stack') = 1
              /\ stack'[1].code = added.last[id]
              /\ stack'[1].cursor = 0
    /\ (AtCall /\ Len(stack') = Len(stack) + 1) =>
          /\ ReadValueAt(Top, 1) \in DOMAIN added.last
          /\ stack'[Len(stack')].code = added.last[ReadValueAt(Top, 1)]
          /\ stack'[Len(stack')].cursor = 0

\* C13: add_program under an id that already has a buffer replaces it
\* silently: run_program(id) executes the buffer of the most recent
\* add_program for that id, and the buffers of other ids are unchanged.
C13_LastRegistrationWins == [][C13_Step]_vars

\* C13 witness: id 1 was given one buffer and then ProgDouble, id 2 holds
\* ProgImmediate, and run_program(1) has run ProgDouble to its RETURN.
C13_Witness ==
    /\ pc = "running"
    /\ Len(stack) = 1
    /\ U32Of(1) \in added.replaced
    /\ U32Of(2) \notin added.replaced
    /\ DOMAIN bytecodes = ProcIds
    /\ bytecodes[U32Of(2)] = ProgImmediate
    /\ stack[1].code = ProgDouble
    /\ ReturnSteps(stack[1]) # {}

RECURSIVE SupportedExpr(_)
RECURSIVE SupportedBlock(_)

\* The expressions the lowering rules cover: no unary operator, a literal,
\* an identifier or a parenthesised supported expression, field follows
\* only, and the nine binary operators.
SupportedExpr(e) ==
    CASE e.kind = "Base" ->
           /\ e.unary = <<>>
           /\ \A i \in DOMAIN e.follow : e.follow[i].f = "Field"
           /\ CASE e.term.t \in {"Int", "Float", "Ident"} -> TRUE
                [] e.term.t = "Expr" -> SupportedExpr(e.term.e)
                [] OTHER -> FALSE
      [] e.kind = "BinaryOp" ->
           /\ BinaryOpcode(e.op) # INVALID
           /\ SupportedExpr(e.lhs)
           /\ SupportedExpr(e.rhs)
      [] OTHER -> FALSE

\* Blocks made of the four statement kinds over supported expressions.
SupportedBlock(block) ==
    \A i \in DOMAIN block :
        LET st == block[i]
        IN  CASE st.s = "Expr" -> SupportedExpr(st.expr)
              [] st.s = "Return" -> st.value.some /\ SupportedExpr(st.value.v)
              [] st.s = "Var" -> ~st.value.some \/ SupportedExpr(st.value.v)
              [] st.s = "If" ->
                   /\ \A a \in DOMAIN st.arms :
                          SupportedExpr(st.arms[a][1]) /\ SupportedBlock(st.arms[a][2])
                   /\ ~st.else_arm.some \/ SupportedBlock(st.else_arm.v)
              [] OTHER -> FALSE

\* C14 as claimed: compile returns a buffer only when every construct of
\* the body is supported, and an unsupported construct (a unary operator
\* and an unsupported binary operator included) makes it return an error
\* value, so it never ends in a panic either.
C14_Original_CompileAllOrNothing ==
    /\ (Len(compiled) = 1 /\ compiled[1].ok) => SupportedBlock(comp.body)
    /\ ~(pc = "panicked" /\ fault = "binop")

\* C15: an identifier resolves against the argument map first and the
\* local map second: a name that is a parameter lowers to LOAD_ARGUMENT
\* with the parameter's position even when a local of that name has been
\* declared, a name only in the local map lowers to LOAD_LOCAL with its
\* slot id, and a name in neither map makes compilation fail there.
C15_ArgumentsBeforeLocals ==
    \A k \in DOMAIN comp.idents :
        LET e == comp.idents[k]
        IN  IF e.name \in DOMAIN comp.args
            THEN /\ e.at + 3 <= Len(comp.bytecode)
                 /\ comp.bytecode[e.at + 1] = LOAD_ARGUMENT
                 /\ comp.bytecode[e.at + 2] = comp.args[e.name]
            ELSE IF e.name \in DOMAIN e.locals
            THEN /\ e.at + 3 <= Len(comp.bytecode)
                 /\ comp.bytecode[e.at + 1] = LOAD_LOCAL
                 /\ comp.bytecode[e.at + 2] = e.locals[e.name]
            ELSE /\ comp.err = "identifier"
                 /\ k = Len(comp.idents)
                 /\ Len(comp.bytecode) = e.at
                 /\ Len(compiled) = 1
                 /\ ~compiled[1].ok

\* C15 witness: `var a = 2; return a` was compiled for a procedure with
\* parameter a: the identifier was visited with a in the local map and
\* lowered to LOAD_ARGUMENT 0.
C15_Witness ==
    /\ Len(compiled) = 1
    /\ compiled[1].ok
    /\ \E k \in DOMAIN comp.idents :
          /\ comp.idents[k].name = "a"
          /\ "a" \in DOMAIN comp.idents[k].locals
          /\ comp.bytecode[comp.idents[k].at + 1] = LOAD_ARGUMENT
          /\ comp.bytecode[comp.idents[k].at + 2] = 0

\* C16 as claimed, on one step: a registration (native or bytecode) for an
\* id that already has a hook reports AlreadyHooked to its caller and
\* leaves the hook entries and the VM's program table as they were; in
\* particular it does not panic.
C16_Original_Step ==
    /\ (Len(host'.registered) = Len(host.registered) + 1
            /\ host'.registered[Len(host'.registered)].id \in DOMAIN host.hooks) =>
          /\ host'.registered[Len(host'.registered)].out = "AlreadyHooked"
          /\ host'.hooks = host.hooks
          /\ bytecodes' = bytecodes
    /\ ~(pc' = "panicked" /\ fault' = "hooks_borrowed")

C16_Original_AlreadyHookedReported == [][C16_Original_Step]_vars

\* C17 as claimed: every intercepted call is routed by the hook its id
\* has: with a native hook the hook runs, with a VM hook run_program runs
\* on the call's arguments converted one by one in order, and with no hook
\* the original procedure gets the unmodified arguments; a hooked id never
\* reaches the original procedure.
C17_Original_DispatchRoutesById ==
    \A k \in DOMAIN host.calls :
        LET e == host.calls[k]
        IN  CASE e.hook = "Rust" -> e.route = "rust" /\ e.given = e.args
              [] e.hook = "VM" ->
                   /\ e.route = "vm"
                   /\ Len(e.given) = Len(e.args)
                   /\ \A i \in DOMAIN e.args :
                          /\ e.given[i].tag = e.args[i].tag
                          /\ e.given[i].value = e.args[i].value
              [] OTHER -> e.route = "original" /\ e.given = e.args

\* What C18 says of the run p of a lowered chain d without an else block:
\* a block runs only for the first arm whose condition is nonzero, at most
\* one block runs, and once an arm matched no later condition or block of
\* the chain runs.
ChainRunsAtMostOneBlock(p, d) ==
    LET n == Len(d.arms)
        ran == {i \in 1 .. n : RanIn(p, d.arms[i].block, d.arms[i].block_end)}
    IN  /\ Cardinality(ran) <= 1
        /\ \A i \in ran :
              /\ CondTrue(p, d, i)
              /\ \A j \in 1 .. (i - 1) :
                     StepsAt(p, d.arms[j].jf) # {} /\ ~CondTrue(p, d, j)
        /\ \A i \in 1 .. n :
              CondTrue(p, d, i) =>
                  \A j \in (i + 1) .. n : ~RanIn(p, d.arms[j].cond, d.arms[j].block_end)

\* C18 as claimed: an if/else-if chain with no else block behaves like the
\* chain with an empty else block: at most one arm's block executes, that
\* of the first arm whose condition is nonzero, and after it no later
\* condition or block of the chain is executed.
C18_Original_NoElseRunsAtMostOneBlock ==
    RunsCompiled =>
        \A c \in DOMAIN comp.chains :
            (~comp.chains[c].has_else /\ comp.chains[c].arms # <<>>) =>
                ChainRunsAtMostOneBlock(stack[1], comp.chains[c])

\* The offset a jump instruction of the compiled buffer carries: the four
\* bytes after the opcode (JUMP) or after the opcode and the register
\* (JUMP_FALSE), read as the interpreter reads them.
JumpTargetAt(b, e) ==
    LET o == IF e.op = JUMP THEN e.at + 2 ELSE e.at + 3
    IN  U32ToPos(U32FromLe(b[o], b[o + 1], b[o + 2], b[o + 3]))

JumpEmits == {k \in DOMAIN comp.emits : comp.emits[k].op \in {JUMP, JUMP_FALSE}}

InstructionStarts == {comp.emits[k].at : k \in DOMAIN comp.emits}

\* C19.  Whenever the statements visited so far all returned Ok, every
\* JUMP and JUMP_FALSE of the buffer carries a target that is greater
\* than the jump's own offset, at most the buffer length, and either the
\* buffer length or the first byte of an emitted instruction; chains
\* nested in blocks of other chains included.
C19_JumpsForwardAndAligned ==
    comp.err = "none" =>
        \A k \in JumpEmits :
            LET t == JumpTargetAt(comp.bytecode, comp.emits[k])
            IN  /\ t > comp.emits[k].at
                /\ t <= Len(comp.bytecode)
                /\ (t = Len(comp.bytecode) \/ t \in InstructionStarts)

\* C19 witness: one statement lowered to two chains, one nested in a block
\* of the other, was returned as the buffer; it holds a JUMP and a
\* JUMP_FALSE, and a jump whose target is an instruction inside the buffer.
C19_Witness ==
    /\ Len(compiled) = 1
    /\ compiled[1].ok
    /\ comp.nstmts = 1
    /\ Len(comp.chains) = 2
    /\ \E j, f \in JumpEmits :
          /\ comp.emits[j].op = JUMP
          /\ comp.emits[f].op = JUMP_FALSE
          /\ JumpTargetAt(compiled[1].bytecode, comp.emits[f]) \in InstructionStarts
          /\ JumpTargetAt(compiled[1].bytecode, comp.emits[f]) < Len(compiled[1].bytecode)

\* The slot ids the locals map holds.
LocalIds == {comp.locals[n] : n \in DOMAIN comp.locals}

\* C20, as stated.  Whenever the statements visited so far all returned
\* Ok, two different local names hold two different slot ids, and the ids
\* held are exactly 0, 1, ..., one per name, a name declared more than
\* once included.
C20_Original_DistinctLocalsDenseIds ==
    comp.err = "none" =>
        /\ \A n, m \in DOMAIN comp.locals :
               n # m => comp.locals[n] # comp.locals[m]
        /\ LocalIds = 0 .. (Cardinality(DOMAIN comp.locals) - 1)

\* A statement `return <identifier with follows>`.
IsIdentReturn(s) ==
    /\ s.s = "Return"
    /\ s.value.some
    /\ s.value.v.kind = "Base"
    /\ s.value.v.term.t = "Ident"

NoBuffer == comp.err # "none" /\ \A k \in DOMAIN compiled : ~compiled[k].ok

GetFieldEmits == {k \in DOMAIN comp.emits : comp.emits[k].op = GET_FIELD}

\* C21, as stated.  Of a body of `return` statements over an identifier:
\* one with two or more follows, or with a follow that is not a field,
\* makes compilation fail and leaves no buffer; a body that is one
\* statement with exactly one field follow emits exactly one GET_FIELD,
\* whose source and destination are the register the identifier was
\* loaded into.
C21_Original_OnlyOneFieldFollowLowers ==
    \A i \in DOMAIN comp.body :
        IsIdentReturn(comp.body[i]) =>
            LET f == comp.body[i].value.v.follow
            IN  /\ (Len(f) >= 2 \/ \E k \in DOMAIN f : f[k].f # "Field") => NoBuffer
                /\ (Len(f) = 1 /\ f[1].f = "Field" /\ Len(comp.body) = 1) =>
                      /\ comp.err = "none"
                      /\ Cardinality(GetFieldEmits) = 1
                      /\ \A k \in GetFieldEmits :
                            LET at == comp.emits[k].at
                            IN  /\ comp.bytecode[at + 2] = comp.bytecode[at]
                                /\ comp.bytecode[at + 5] = comp.bytecode[at]

\* The innermost Process is about to decode a whole LOAD_IMMEDIATE whose
\* dest names one of the registers.
AtLoadImmediate ==
    /\ pc = "running"
    /\ Top.state = "running"
    /\ NextOp(Top) = LOAD_IMMEDIATE
    /\ Avail(Top, 7)
    /\ ByteAt(Top, 1) \in RegIdx

\* C22, on one step.  A step of the loop on a whole LOAD_IMMEDIATE dest,
\* type, value with dest a register returns Ok (the loop goes on in the
\* same Process), leaves registers[dest] = (type, the four operand bytes
\* read little-endian), moves the cursor forward by exactly 7, and
\* changes no other register, no local, no argument, not the
\* call-argument stack and not the return-register id.
C22_Step ==
    (AtLoadImmediate /\ stack' # stack) =>
        LET q == stack'[Len(stack)]
            dest == ByteAt(Top, 1)
            value == [ hi |-> ByteAt(Top, 6) * 256 + ByteAt(Top, 5),
                       lo |-> ByteAt(Top, 4) * 256 + ByteAt(Top, 3) ]
        IN  /\ pc' = "running"
            /\ fault' = fault
            /\ Len(stack') = Len(stack)
            /\ q.state = "running"
            /\ q.cursor = Top.cursor + 7
            /\ q.registers[dest] = [tag |-> ByteAt(Top, 2), value |-> value]
            /\ \A i \in RegIdx : i # dest => q.registers[i] = Top.registers[i]
            /\ q.locals = Top.locals
            /\ q.args = Top.args
            /\ q.call_arg_stack = Top.call_arg_stack
            /\ q.return_register_id = Top.return_register_id
            /\ q.code = Top.code

C22_LoadImmediateFrameEffect == [][C22_Step]_vars

\* C22 witness: a LOAD_IMMEDIATE of a tag other than number has written
\* the last register, with another register already holding a nonzero
\* value, and the Process is 7 bytes further.
C22_Witness ==
    /\ pc = "running"
    /\ Len(Top.trace) >= 2
    /\ Top.trace[Len(Top.trace)].op = LOAD_IMMEDIATE
    /\ Top.cursor = Top.trace[Len(Top.trace)].pos + 7
    /\ Top.registers[15] = [tag |-> 0, value |-> [hi |-> 65535, lo |-> 65535]]
    /\ Top.registers[3] = [tag |-> 7, value |-> [hi |-> 1027, lo |-> 513]]

MathOps == {ADD, SUB, MUL, DIV}
CompareOps == {LESS_THAN, LESS_OR_EQUAL, EQUAL, GREATER_OR_EQUAL, GREATER_THAN}

\* The innermost Process is about to decode a whole arithmetic or
\* comparison instruction whose three operands name registers.
AtBinaryOp ==
    /\ pc = "running"
    /\ Top.state = "running"
    /\ NextOp(Top) \in MathOps \cup CompareOps
    /\ Avail(Top, 4)
    /\ \A k \in 1 .. 3 : ByteAt(Top, k) \in RegIdx

\* The Process with every register's tag replaced by t, payloads kept.
Retagged(p, t) ==
    [p EXCEPT !.registers = [i \in RegIdx |-> [tag |-> t, value |-> p.registers[i].value]]]

\* C23, on one step.  A step on ADD, SUB, MUL, DIV or one of the five
\* comparisons writes dest alone, tags it number (0x2A), moves the cursor
\* forward by exactly 4 and changes nothing else of the Process; what it
\* writes is what the same instruction writes when the registers hold the
\* same payloads under any other tag; a comparison writes the bits of 1.0
\* or of 0.0, and on two decoded operands 1.0 exactly when the float
\* comparison of the two payloads holds.
C23_Step ==
    (AtBinaryOp /\ stack' # stack) =>
        LET q == stack'[Len(stack)]
            op == NextOp(Top)
            left == Top.registers[ByteAt(Top, 1)]
            right == Top.registers[ByteAt(Top, 2)]
            dest == ByteAt(Top, 3)
        IN  /\ pc' = "running"
            /\ Len(stack') = Len(stack)
            /\ q.state = "running"
            /\ q.cursor = Top.cursor + 4
            /\ q.registers[dest].tag = 42
            /\ \A i \in RegIdx : i # dest => q.registers[i] = Top.registers[i]
            /\ q.locals = Top.locals
            /\ q.args = Top.args
            /\ q.call_arg_stack = Top.call_arg_stack
            /\ q.return_register_id = Top.return_register_id
            /\ \A t \in {0, 7, 42} :
                  \E env \in EnvFor(Top) :
                      execute_one(Retagged(Top, t), env).p.registers[dest] = q.registers[dest]
            /\ op \in CompareOps =>
                  /\ q.registers[dest].value \in {F32One, ZeroU32}
                  /\ (F32FromBits(left.value).k # "other"
                          /\ F32FromBits(right.value).k # "other") =>
                        (q.registers[dest].value = F32One
                            <=> compare(F32FromBits(left.value), F32FromBits(right.value), op))

C23_BinaryOpsReadPayloadsWriteNumber == [][C23_Step]_vars

\* C23 witness: a comparison of 1.0 held under tag 7 with 2.0 held under
\* tag 0 has written 1.0 tagged number, and the subtraction after it has
\* overwritten its own left operand with -1.0 tagged number.
C23_Witness ==
    /\ pc = "running"
    /\ Top.code = ProgMixedTags
    /\ Top.cursor = 22
    /\ Top.registers[2] = [tag |-> 42, value |-> F32One]
    /\ Top.registers[0] = [tag |-> 42, value |-> [hi |-> 49024, lo |-> 0]]
    /\ Top.registers[1] = [tag |-> 0, value |-> F32Two]

\* The allocator's books at one point: the ids held by live temporaries
\* and the ids of the free-list are disjoint, the free-list has no
\* duplicate, and together they are exactly 0 .. next_free_register - 1.
AllocatorConsistent(live, free, next) ==
    /\ live \cap Range(free) = {}
    /\ Cardinality(Range(free)) = Len(free)
    /\ live \cup Range(free) = 0 .. (next - 1)

\* C24.  The allocator's books are consistent at every instruction
\* emitted, at every acquisition and after every statement; an
\* acquisition never hands out an id a live temporary holds; and after
\* each statement that returned, Ok or Err, no temporary is live and every
\* id allocated so far is in the free-list.
C24_AllocatorInvariant ==
    /\ AllocatorConsistent(comp.live, comp.free_registers, comp.next_free_register)
    /\ \A k \in DOMAIN comp.emits :
           AllocatorConsistent(comp.emits[k].live, comp.emits[k].free, comp.emits[k].next)
    /\ \A k \in DOMAIN comp.allocs :
           LET a == comp.allocs[k]
           IN  /\ AllocatorConsistent(a.live, a.free, a.next)
               /\ a.id \notin a.live
               /\ AllocatorConsistent(a.live \cup {a.id}, a.free_after, a.next_after)
    /\ comp.err # "panic" =>
           /\ comp.live = {}
           /\ Range(comp.free_registers) = 0 .. (comp.next_free_register - 1)

\* C24 witness: a statement that held three temporaries at once was
\* followed by one that failed after it had acquired a register; all
\* the ids are back in the free-list.
C24_Witness ==
    /\ comp.err = "follow"
    /\ comp.nstmts = 2
    /\ comp.next_free_register >= 3
    /\ \E k \in DOMAIN comp.emits : Cardinality(comp.emits[k].live) >= 3
    /\ \E k \in DOMAIN comp.allocs : comp.allocs[k].free # <<>>
    /\ Len(comp.free_registers) = comp.next_free_register

\* The Process run is that of the returned buffer, as it is or with the
\* terminator appended.
RunsCompiledOrTerminated ==
    /\ Len(compiled) = 1
    /\ compiled[1].ok
    /\ Len(stack) = 1
    /\ \E tail \in Tails : stack[1].code = compiled[1].bytecode \o tail

RunsTerminated ==
    /\ RunsCompiledOrTerminated
    /\ stack[1].code = compiled[1].bytecode \o <<HALT>>

\* The steps of p that returned, Ok or Err: a step that panicked is last.
Returned(p) == IF pc = "panicked" THEN Len(p.trace) - 1 ELSE Len(p.trace)

\* C25.  In a run of a buffer the Compiler returned, with or without a
\* terminator opcode after it, every step that returns leaves the cursor
\* strictly further than it found it, so no offset is decoded twice and
\* the steps that returned are at most as many as the buffer has bytes;
\* in the buffer that ends with the terminator, a loop that stopped
\* stopped at a terminator opcode, not later than the last byte.
C25_CursorIncreasesRunIsBounded ==
    RunsCompiledOrTerminated =>
        LET p == stack[1]
        IN  /\ \A k \in 1 .. Returned(p) : PosAfter(p, k) > p.trace[k].pos
            /\ \A j, k \in DOMAIN p.trace : j < k => p.trace[j].pos < p.trace[k].pos
            /\ Returned(p) <= Len(p.code)
            /\ (RunsTerminated /\ p.state = "stopped") =>
                  /\ p.trace[Len(p.trace)].op \in {HALT, SET_FIELD, INVALID}
                  /\ p.cursor <= Len(p.code)

\* C25 witness: the buffer of a chain with an else block, terminator
\* appended, has run through a taken JUMP_FALSE and the JUMP of a block to
\* the terminator in the last byte, and the loop has stopped there.
C25_Witness ==
    /\ RunsTerminated
    /\ stack[1].state = "stopped"
    /\ stack[1].cursor = Len(stack[1].code)
    /\ stack[1].trace[Len(stack[1].trace)].op = HALT
    /\ \E k \in DOMAIN stack[1].trace :
          /\ stack[1].trace[k].op = JUMP
          /\ PosAfter(stack[1], k) > stack[1].trace[k].pos + 5
    /\ \E k \in DOMAIN stack[1].trace :
          /\ stack[1].trace[k].op = JUMP_FALSE
          /\ PosAfter(stack[1], k) > stack[1].trace[k].pos + 6

\* The ids whose hook entry is of kind VM in hook state h.
VmHooked(h) == {id \in DOMAIN h.hooks : h.hooks[id] = "VM"}

\* C26, on one step.  After every step, registrations included, each id
\* whose hook entry is of kind VM has a buffer in the VM's program table;
\* and a call the dispatcher routes to the VM starts a Process over the
\* buffer of that id, with the arguments as Registers, and adds no native
\* invocation.
C26_Step ==
    /\ VmHooked(host') \subseteq DOMAIN bytecodes'
    /\ (Len(host'.calls) = Len(host.calls) + 1
            /\ host'.calls[Len(host'.calls)].route = "vm") =>
          LET call == host'.calls[Len(host'.calls)]
          IN  /\ call.id \in DOMAIN bytecodes
              /\ pc' = "running"
              /\ stack' = <<Process_new(0, bytecodes[call.id], call.given)>>
              /\ nativeCalls' = nativeCalls
              /\ fault' = fault

C26_VmHookedIdsHaveBuffers == [][C26_Step]_vars

\* C26 witness: after two registrations with bytecode for one id, the
\* second of which found the id hooked, a call from the host's top level
\* to that id is running as a Process over the id's buffer.
C26_Witness ==
    /\ pc = "running"
    /\ Len(host.registered) = 2
    /\ host.registered[1].kind = "VM"
    /\ host.registered[2].kind = "VM"
    /\ host.registered[1].id = host.registered[2].id
    /\ host.calls # <<>>
    /\ LET call == host.calls[Len(host.calls)]
       IN  /\ call.route = "vm"
           /\ call.from = "none"
           /\ call.id \in VmHooked(host)
           /\ call.id = host.registered[1].id
           /\ Len(stack) = 1
           /\ stack[1].code = bytecodes[call.id]
           /\ nativeCalls = <<>>

====
